---- MODULE Spec2Model ----
(***************************************************************************)
(* A model of the Verilog formatter driver (verilog/formatting/formatter.cc, *)
(* kept here as src/unnamed/part_000): FormatVerilog, Formatter::Format,     *)
(* Formatter::Emit, VerifyFormatting and the helpers they call.              *)
(*                                                                           *)
(* Text is a sequence of one-character strings; a byte offset o (0-based, as *)
(* in the C++) is the sequence index o + 1.                                  *)
(***************************************************************************)
EXTENDS Integers, Sequences, FiniteSets, TLC

\* --------------------------------------------------------------------------
\* Bounds of the model
\* --------------------------------------------------------------------------
\* Longest input text of the driver specification, in bytes.
MaxTextLen == 3

\* style.column_limit, scaled down so that both fitting and overflowing
\* lines occur within the bounded texts.
ColumnLimit == 3

\* The larger of the two search budgets offered as control.max_search_states.
MaxSearchStates == 4

\* Most nodes of a token partition tree.
MaxTreeNodes == 3

\* --------------------------------------------------------------------------
\* Characters, text and byte offsets
\* --------------------------------------------------------------------------
Letter == {"a"}
Digit == {"1"}
Space == {" ", "\n"}
\* The opening byte of a //-comment: "/" an ordinary one, "<" one that reads
\* "// verilog_format: off", ">" one that reads "// verilog_format: on".
Comment == {"/", "<", ">"}
Chars == Letter \cup Digit \cup Space

\* absl::string_view::substr over byte offsets [lo, hi).
Substr(t, lo, hi) == IF hi <= lo THEN <<>> ELSE SubSeq(t, lo + 1, hi)

Min(a, b) == IF a <= b THEN a ELSE b
Max(a, b) == IF a >= b THEN a ELSE b

\* n copies of character c (verible::Spacer).
Spacer(n, c) == [i \in 1..n |-> c]

RECURSIVE Concat(_)
Concat(ss) == IF ss = <<>> THEN <<>> ELSE Head(ss) \o Concat(Tail(ss))

NewlineCount(t) == Cardinality({i \in 1..Len(t) : t[i] = "\n"})

\* All texts of at most n bytes.
TextsUpTo(n) == UNION {[1..k -> Chars] : k \in 0..n}

\* --------------------------------------------------------------------------
\* Lexer (external collaborator): a //-comment runs to the end of its line
\* (the newline excluded); any other token is a maximal run of letters and
\* digits.  A run starting with a letter is an identifier, a run of digits a
\* number, a run starting with a digit and holding a letter a lexical error.
\* --------------------------------------------------------------------------
RECURSIVE LineEnd(_, _)
LineEnd(t, pos) ==
  IF pos >= Len(t) \/ t[pos + 1] = "\n" THEN pos ELSE LineEnd(t, pos + 1)

RECURSIVE WordEnd(_, _)
WordEnd(t, pos) ==
  IF pos >= Len(t) \/ t[pos + 1] \in Space \cup Comment THEN pos
  ELSE WordEnd(t, pos + 1)

RunEnd(t, pos) ==
  IF t[pos + 1] \in Comment THEN LineEnd(t, pos) ELSE WordEnd(t, pos)

TokenKind(t, lo, hi) ==
  IF t[lo + 1] \in Comment THEN "TK_EOL_COMMENT"
  ELSE IF t[lo + 1] \in Letter THEN "SymbolIdentifier"
  ELSE IF \A o \in lo..(hi - 1) : t[o + 1] \in Digit THEN "TK_DecNumber"
  ELSE "TK_OTHER_error"

RECURSIVE LexFrom(_, _)
LexFrom(t, pos) ==
  IF pos >= Len(t) THEN <<>>
  ELSE IF t[pos + 1] \in Space THEN LexFrom(t, pos + 1)
  ELSE LET end == RunEnd(t, pos)
       IN  <<[left |-> pos, right |-> end, token_enum |-> TokenKind(t, pos, end)]>>
             \o LexFrom(t, end)

\* The whitespace-filtered token stream of a text.
Lex(t) == LexFrom(t, 0)

LexOk(t) == \A i \in 1..Len(Lex(t)) : Lex(t)[i].token_enum # "TK_OTHER_error"

\* Kinds and texts of the filtered token stream.
FilteredTokens(t) ==
  [i \in 1..Len(Lex(t)) |->
     <<Lex(t)[i].token_enum, Substr(t, Lex(t)[i].left, Lex(t)[i].right)>>]

\* verilog::FormatEquivalent: lexes both texts and compares the filtered
\* streams by kind and text.
FormatEquivalent(left, right) ==
  IF ~LexOk(left) THEN "kLeftError"
  ELSE IF ~LexOk(right) THEN "kRightError"
  ELSE IF FilteredTokens(left) = FilteredTokens(right) THEN "kEquivalent"
  ELSE "kDifferent"

\* --------------------------------------------------------------------------
\* Format tokens and unwrapped lines
\* --------------------------------------------------------------------------
SpacingOptions == {"Undecided", "MustAppend", "MustWrap", "Preserve"}

\* style.wrap_spaces and style.indentation_spaces, scaled down with the
\* column limit.
WrapSpaces == 2
IndentationSpaces == 1

\* UnwrapperData: one PreFormatToken per token of the stream; the preserved
\* space of a token starts where the previous token ended.
PreFormatTokens(toks) ==
  [i \in 1..Len(toks) |->
     [left |-> toks[i].left, right |-> toks[i].right,
      token_enum |-> toks[i].token_enum,
      before |-> [spaces_required |-> 0, break_decision |-> "Undecided",
                  preserved_space_start |->
                    IF i = 1 THEN 0 ELSE toks[i - 1].right]]]

\* An UnwrappedLine owns the format tokens lo+1 .. hi (the half-open index
\* range [lo, hi) counted from 0).
UnwrappedLine(lo, hi, ind, policy) ==
  [lo |-> lo, hi |-> hi, indentation_spaces |-> ind, partition_policy |-> policy]

IsEmpty(uwline) == uwline.hi <= uwline.lo

PartitionPolicyEnum ==
  {"kAlwaysExpand", "kFitOnLineElseExpand", "kAppendFittingSubPartitions", "kInline"}

\* verible::FitsOnLine: the line laid out on one row, every token after the
\* first preceded by its required spaces, ends within the column limit and
\* holds no forced break.
RECURSIVE LineWidth(_, _, _)
LineWidth(ft, lo, hi) ==
  IF hi <= lo THEN 0
  ELSE LineWidth(ft, lo, hi - 1)
         + (IF hi - 1 > lo THEN ft[hi].before.spaces_required ELSE 0)
         + (ft[hi].right - ft[hi].left)

FitsOnLine(uwline, ft) ==
  /\ \A i \in (uwline.lo + 2)..uwline.hi : ft[i].before.break_decision # "MustWrap"
  /\ uwline.indentation_spaces + LineWidth(ft, uwline.lo, uwline.hi) <= ColumnLimit

\* --------------------------------------------------------------------------
\* Token partition tree and its expandable view
\* --------------------------------------------------------------------------
\* A node of the token partition tree: an unwrapped line and the children.
TreeNode(uwline, children) == [uwline |-> uwline, children |-> children]

\* ExpandableTreeView's constructor: a view node adds the expanded mark to
\* the partition; every node starts expanded.
RECURSIVE ExpandableTreeView(_)
ExpandableTreeView(node) ==
  [uwline |-> node.uwline, expanded |-> TRUE,
   children |-> [i \in DOMAIN node.children |-> ExpandableTreeView(node.children[i])]]

\* A faulty decision that goes by the policy alone, whatever the children.
DeterminePartitionExpansion_PolicyOnly(node, ft) == IF node.children = <<>> THEN [node EXCEPT !.expanded = FALSE] ELSE IF node.uwline.partition_policy \in {"kAppendFittingSubPartitions", "kFitOnLineElseExpand"} THEN [node EXCEPT !.expanded = ~FitsOnLine(node.uwline, ft)] ELSE IF node.uwline.partition_policy = "kAlwaysExpand" THEN [node EXCEPT !.expanded = Len(node.children) > 1] ELSE node

\* A faulty decision that never unexpands a node that has children.
DeterminePartitionExpansion_NeverFold(node, ft) == IF node.children = <<>> THEN [node EXCEPT !.expanded = FALSE] ELSE [node EXCEPT !.expanded = TRUE]

\* DeterminePartitionExpansion on one node whose children are already marked.
DeterminePartitionExpansion(node, ft) ==
  IF node.children = <<>> THEN [node EXCEPT !.expanded = FALSE]
  ELSE IF \E i \in DOMAIN node.children : node.children[i].expanded
    THEN [node EXCEPT !.expanded = TRUE]
  ELSE CASE node.uwline.partition_policy = "kAlwaysExpand" ->
              IF Len(node.children) > 1 THEN [node EXCEPT !.expanded = TRUE]
              ELSE node
         [] node.uwline.partition_policy
              \in {"kAppendFittingSubPartitions", "kFitOnLineElseExpand"} ->
              IF FitsOnLine(node.uwline, ft) THEN [node EXCEPT !.expanded = FALSE]
              ELSE [node EXCEPT !.expanded = TRUE]
         [] OTHER -> node

\* ApplyPostOrder: children first, then the node itself.
RECURSIVE ApplyPostOrder(_, _)
ApplyPostOrder(node, ft) ==
  DeterminePartitionExpansion(
    [node EXCEPT !.children =
       [i \in DOMAIN node.children |-> ApplyPostOrder(node.children[i], ft)]],
    ft)

\* A faulty iteration that yields every node of the tree, in pre-order.
RECURSIVE ViewSequence_EveryNode(_)
ViewSequence_EveryNode(node) ==
  <<node.uwline>>
    \o Concat([i \in DOMAIN node.children |-> ViewSequence_EveryNode(node.children[i])])

\* The view's iteration: descend through expanded nodes, stop at the first
\* unexpanded (or childless) node of every path, left to right.
RECURSIVE ViewSequence(_)
ViewSequence(node) ==
  IF node.expanded /\ node.children # <<>>
    THEN Concat([i \in DOMAIN node.children |-> ViewSequence(node.children[i])])
    ELSE <<node.uwline>>

\* A faulty worklist builder that keeps the blank lines.
RemoveTrailingBlankLines_Never(lines) == lines

\* A faulty loop that pops one blank line at most.
RemoveTrailingBlankLines_Once(lines) == IF lines # <<>> /\ IsEmpty(lines[Len(lines)]) THEN SubSeq(lines, 1, Len(lines) - 1) ELSE lines

\* Lines 277-279.
RECURSIVE RemoveTrailingBlankLines(_)
RemoveTrailingBlankLines(lines) ==
  IF lines # <<>> /\ IsEmpty(lines[Len(lines)])
    THEN RemoveTrailingBlankLines(SubSeq(lines, 1, Len(lines) - 1))
    ELSE lines

MakeUnwrappedLinesWorklist(tree, ft) ==
  RemoveTrailingBlankLines(ViewSequence(ApplyPostOrder(ExpandableTreeView(tree), ft)))

\* The partition trees of exactly k nodes over the token range [lo, hi):
\* siblings are contiguous, in order, and cover their parent's range; a
\* child may be empty.
RECURSIVE Trees(_, _, _, _), Forests(_, _, _, _)
Trees(k, lo, hi, ind) ==
  IF k = 1
    THEN {TreeNode(UnwrappedLine(lo, hi, ind, p), <<>>) :
            p \in {"kFitOnLineElseExpand"}}
    ELSE {TreeNode(UnwrappedLine(lo, hi, ind, p), f) :
            p \in PartitionPolicyEnum,
            f \in Forests(k - 1, lo, hi, ind + IndentationSpaces)}

Forests(m, lo, hi, ind) ==
  IF m = 0 THEN (IF lo = hi THEN {<<>>} ELSE {})
  ELSE UNION {{<<t>> \o f : t \in Trees(jm[1], lo, jm[2], ind),
                            f \in Forests(m - jm[1], jm[2], hi, ind)} :
              jm \in (1..m) \X (lo..hi)}

TreesUpTo(n, lo, hi) == UNION {Trees(k, lo, hi, 0) : k \in 1..n}

\* --------------------------------------------------------------------------
\* Disabled byte ranges
\* --------------------------------------------------------------------------
\* A ByteOffsetSet is modelled by the set of byte offsets it holds; its
\* ranges are the maximal intervals [lo, hi) of that set, in increasing
\* order.
RECURSIVE IntervalEnd(_, _)
IntervalEnd(S, o) == IF o \in S THEN IntervalEnd(S, o + 1) ELSE o

RECURSIVE SortedRanges(_, _)
SortedRanges(S, starts) ==
  IF starts = {} THEN <<>>
  ELSE LET lo == CHOOSE x \in starts : \A y \in starts : x <= y
       IN  <<<<lo, IntervalEnd(S, lo)>>>> \o SortedRanges(S, starts \ {lo})

Ranges(S) == SortedRanges(S, {o \in S : (o - 1) \notin S})

Interval(lo, hi) == {o \in lo..(hi - 1) : TRUE}

\* A faulty search whose upper bound also stops at a token that ends
\* exactly where the range ends.
FindFormatTokensInByteOffsetRange_EndExclusive(ft, begin, byte_offset_range) ==
  LET end == Len(ft) + 1
      lower == {i \in begin..Len(ft) : ~(ft[i].left < byte_offset_range[1])}
      tokens_begin == IF lower = {} THEN end
                      ELSE CHOOSE i \in lower : \A j \in lower : i <= j
      upper == {i \in tokens_begin..Len(ft) : byte_offset_range[2] <= ft[i].right}
      tokens_end == IF upper = {} THEN end
                    ELSE CHOOSE i \in upper : \A j \in upper : i <= j
  IN  <<tokens_begin, tokens_end>>

\* FindFormatTokensInByteOffsetRange: the index range [first, last) of the
\* tokens, searched from index begin on, that start at or after
\* byte_offset_range[1] and end at or before byte_offset_range[2].
FindFormatTokensInByteOffsetRange(ft, begin, byte_offset_range) ==
  LET end == Len(ft) + 1
      lower == {i \in begin..Len(ft) : ~(ft[i].left < byte_offset_range[1])}
      tokens_begin == IF lower = {} THEN end
                      ELSE CHOOSE i \in lower : \A j \in lower : i <= j
      upper == {i \in tokens_begin..Len(ft) : byte_offset_range[2] < ft[i].right}
      tokens_end == IF upper = {} THEN end
                    ELSE CHOOSE i \in upper : \A j \in upper : i <= j
  IN  <<tokens_begin, tokens_end>>

\* A faulty iteration that spares the tokens the annotator made wrap.
PreserveOneRange_UnlessMustWrap(ft, saved_iter, range) == [i \in DOMAIN ft |-> IF FindFormatTokensInByteOffsetRange(ft, saved_iter, range)[1] <= i /\ i < FindFormatTokensInByteOffsetRange(ft, saved_iter, range)[2] /\ ft[i].before.break_decision # "MustWrap" THEN [ft[i] EXCEPT !.before.break_decision = "Preserve"] ELSE ft[i]]

\* A faulty iteration that leaves preserved_space_start alone.
PreserveOneRange_NoKludge(ft, saved_iter, range) == [i \in DOMAIN ft |-> IF FindFormatTokensInByteOffsetRange(ft, saved_iter, range)[1] <= i /\ i < FindFormatTokensInByteOffsetRange(ft, saved_iter, range)[2] THEN [ft[i] EXCEPT !.before.break_decision = "Preserve"] ELSE ft[i]]

\* One iteration of the loop of PreserveSpacesOnDisabledTokenRanges.
PreserveOneRange(ft, saved_iter, range) ==
  LET disable_range == FindFormatTokensInByteOffsetRange(ft, saved_iter, range)
      begin_disable == disable_range[1]
      end_disable == disable_range[2]
      marked == [i \in DOMAIN ft |->
                   IF begin_disable <= i /\ i < end_disable
                     THEN [ft[i] EXCEPT !.before.break_decision = "Preserve"]
                     ELSE ft[i]]
  IN  IF /\ begin_disable # 1
         /\ begin_disable # end_disable
         /\ marked[begin_disable - 1].token_enum = "TK_EOL_COMMENT"
        THEN [marked EXCEPT ![begin_disable].before.preserved_space_start = @ + 1]
        ELSE marked

\* A faulty loop that restarts one token past the end of the previous span.
RECURSIVE PreserveLoop_SkipToken(_, _, _)
PreserveLoop_SkipToken(ft, ranges, saved_iter) == IF ranges = <<>> THEN ft ELSE PreserveLoop_SkipToken(PreserveOneRange(ft, saved_iter, Head(ranges)), Tail(ranges), FindFormatTokensInByteOffsetRange(ft, saved_iter, Head(ranges))[2] + 1)

\* The loop of PreserveSpacesOnDisabledTokenRanges (lines 333-366);
\* saved_iter is where the next search starts.
RECURSIVE PreserveLoop(_, _, _)
PreserveLoop(ft, ranges, saved_iter) ==
  IF ranges = <<>> THEN ft
  ELSE PreserveLoop(PreserveOneRange(ft, saved_iter, Head(ranges)),
                    Tail(ranges),
                    FindFormatTokensInByteOffsetRange(ft, saved_iter, Head(ranges))[2])

\* A faulty loop that handles the first range only.
PreserveSpacesOnDisabledTokenRanges_FirstRange(ft, disabled_ranges) == PreserveLoop(ft, SubSeq(Ranges(disabled_ranges), 1, 1), 1)

PreserveSpacesOnDisabledTokenRanges(ft, disabled_ranges) ==
  PreserveLoop(ft, Ranges(disabled_ranges), 1)

\* A faulty interval that starts at the first byte of the substring.
ByteOffsetRange_FromFirstByte(sub_begin, sub_end) == <<sub_begin, sub_end>>

\* ByteOffsetRange: the interval of a non-empty substring within the text,
\* its start moved one byte to the right.
ByteOffsetRange(sub_begin, sub_end) == <<sub_begin + 1, sub_end>>

\* Offsets of the first byte of every line (LineColumnMap).
LineStarts(t) == {0} \cup {o \in 1..(Len(t) - 1) : t[o] = "\n"}

LineNumber(t, o) == Cardinality({s \in LineStarts(t) : s <= o})

\* EnabledLinesToDisabledByteRanges: no selected line enables every line;
\* otherwise every byte of a line that is not selected is disabled.
EnabledLinesToDisabledByteRanges(lineset, t) ==
  IF lineset = {} THEN {}
  ELSE {o \in 0..(Len(t) - 1) : LineNumber(t, o) \notin lineset}

\* DisableFormattingRanges: "off" opens an interval just past the newline
\* that ends the directive's line, "on" closes it at the directive's start,
\* an interval never closed runs to the end of the text.
RECURSIVE DirectiveRanges(_, _, _, _)
DirectiveRanges(t, toks, i, open) ==
  IF i > Len(toks)
    THEN (IF open >= 0 THEN Interval(open, Len(t)) ELSE {})
  ELSE IF open < 0 /\ t[toks[i].left + 1] = "<"
    THEN DirectiveRanges(t, toks, i + 1, Min(toks[i].right + 1, Len(t)))
  ELSE IF open >= 0 /\ t[toks[i].left + 1] = ">"
    THEN Interval(open, toks[i].left) \cup DirectiveRanges(t, toks, i + 1, -1)
  ELSE DirectiveRanges(t, toks, i + 1, open)

DisableFormattingRanges(t, toks) == DirectiveRanges(t, toks, 1, -1)

\* --------------------------------------------------------------------------
\* Wrap search and emission
\* --------------------------------------------------------------------------
\* style.max_blank_lines, scaled down.
MaxBlankLines == 1

\* Output is a sequence of bytes, each with the offset of the input byte it
\* was copied from, or -1 for a byte the formatter produced itself.
Copied(t, lo, hi) == [k \in 1..Max(hi - lo, 0) |-> [c |-> t[lo + k], o |-> lo + k - 1]]
Produced(chars) == [k \in 1..Len(chars) |-> [c |-> chars[k], o |-> -1]]
Bytes(out) == [k \in 1..Len(out) |-> out[k].c]

\* verible::SearchLineWraps, its first solution: the first token is appended
\* at the line's indentation; a later token keeps its original spacing when
\* marked Preserve, is appended when it must be or when it still fits, and is
\* wrapped otherwise.  The search completes when its budget covers one state
\* per token and one more per token left undecided.
RECURSIVE SearchTokens(_, _, _, _)
SearchTokens(ft, uwline, i, col) ==
  IF i > uwline.hi THEN <<>>
  ELSE LET t == ft[i]
           width == t.right - t.left
           first == (i = uwline.lo + 1)
           appended == col + t.before.spaces_required + width
           wrapped == uwline.indentation_spaces + WrapSpaces + width
           action ==
             IF first THEN "Append"
             ELSE CASE t.before.break_decision = "Preserve" -> "Preserve"
                    [] t.before.break_decision = "MustAppend" -> "Append"
                    [] t.before.break_decision = "MustWrap" -> "Wrap"
                    [] OTHER -> IF appended <= ColumnLimit THEN "Append" ELSE "Wrap"
           spaces == IF first THEN 0
                     ELSE IF action = "Wrap"
                       THEN uwline.indentation_spaces + WrapSpaces
                       ELSE t.before.spaces_required
           next == IF first THEN col + width
                   ELSE IF action = "Wrap" THEN wrapped ELSE appended
       IN  <<[left |-> t.left, right |-> t.right,
              before |-> [action |-> action, spaces |-> spaces,
                          preserved_space_start |-> t.before.preserved_space_start]]>>
             \o SearchTokens(ft, uwline, i + 1, next)

SearchStatesNeeded(ft, uwline) ==
  (uwline.hi - uwline.lo)
    + Cardinality({i \in (uwline.lo + 2)..uwline.hi :
                     ft[i].before.break_decision = "Undecided"})

SearchLineWraps(uwline, ft, max_search_states) ==
  [tokens |-> SearchTokens(ft, uwline, uwline.lo + 1, uwline.indentation_spaces),
   indentation_spaces |-> uwline.indentation_spaces,
   completed_formatting |-> SearchStatesNeeded(ft, uwline) <= max_search_states]

\* FormattedExcerpt::FormattedText: the optional indentation, the first
\* token, then every later token behind its spacing.
TokenSpacing(t, tok) ==
  CASE tok.before.action = "Preserve" ->
         Copied(t, tok.before.preserved_space_start, tok.left)
    [] tok.before.action = "Wrap" ->
         Produced(<<"\n">> \o Spacer(tok.before.spaces, " "))
    [] OTHER -> Produced(Spacer(tok.before.spaces, " "))

FormattedText(t, line, indent) ==
  (IF indent THEN Produced(Spacer(line.indentation_spaces, " ")) ELSE <<>>)
    \o Concat([k \in 1..Len(line.tokens) |->
                 (IF k = 1 THEN <<>> ELSE TokenSpacing(t, line.tokens[k]))
                   \o Copied(t, line.tokens[k].left, line.tokens[k].right)])

\* FormatWhitespaceWithDisabledByteRanges on the gap [start, end): the bytes
\* inside a disabled range are copied; every enabled stretch keeps only its
\* newlines, at most one more than max_blank_lines; a gap that is not at the
\* start of the text and not disabled yields at least one newline.
RECURSIVE StretchEnd(_, _, _)
StretchEnd(D, o, end) ==
  IF o + 1 < end /\ (((o + 1) \in D) <=> (o \in D)) THEN StretchEnd(D, o + 1, end)
  ELSE o + 1

RECURSIVE WhitespaceStretches(_, _, _, _)
WhitespaceStretches(t, D, o, end) ==
  IF o >= end THEN <<>>
  ELSE LET e == StretchEnd(D, o, end)
       IN  (IF o \in D THEN Copied(t, o, e)
            ELSE Produced(Spacer(Min(NewlineCount(Substr(t, o, e)),
                                     MaxBlankLines + 1), "\n")))
             \o WhitespaceStretches(t, D, e, end)

FormatWhitespaceWithDisabledByteRanges(t, start, end, D) ==
  IF start >= end
    THEN (IF start # 0 /\ start \notin D THEN Produced(<<"\n">>) ELSE <<>>)
  ELSE LET enabled == {o \in start..(end - 1) : o \notin D}
           body == WhitespaceStretches(t, D, start, end)
       IN  IF /\ enabled # {}
              /\ \A o \in enabled : t[o + 1] # "\n"
              /\ start # 0
             THEN body \o Produced(<<"\n">>)
             ELSE body

\* A faulty Emit whose position stays where the text begins.
RECURSIVE EmitLines_StalePosition(_, _, _, _)
EmitLines_StalePosition(t, flines, position, D) == IF flines = <<>> THEN FormatWhitespaceWithDisabledByteRanges(t, position, Len(t), D) ELSE FormatWhitespaceWithDisabledByteRanges(t, position, Head(flines).tokens[1].left, D) \o FormattedText(t, Head(flines), Head(flines).tokens[1].left \notin D) \o EmitLines_StalePosition(t, Tail(flines), position, D)

\* A faulty Emit that indents every excerpt.
RECURSIVE EmitLines_AlwaysIndent(_, _, _, _)
EmitLines_AlwaysIndent(t, flines, position, D) == IF flines = <<>> THEN FormatWhitespaceWithDisabledByteRanges(t, position, Len(t), D) ELSE FormatWhitespaceWithDisabledByteRanges(t, position, Head(flines).tokens[1].left, D) \o FormattedText(t, Head(flines), TRUE) \o EmitLines_AlwaysIndent(t, Tail(flines), Head(flines).tokens[Len(Head(flines).tokens)].right, D)

\* Formatter::Emit over formatted_lines_, position tracking the original text.
RECURSIVE EmitLines(_, _, _, _)
EmitLines(t, flines, position, D) ==
  IF flines = <<>>
    THEN FormatWhitespaceWithDisabledByteRanges(t, position, Len(t), D)
  ELSE LET line == Head(flines)
           front_offset == line.tokens[1].left
       IN  FormatWhitespaceWithDisabledByteRanges(t, position, front_offset, D)
             \o FormattedText(t, line, front_offset \notin D)
             \o EmitLines(t, Tail(flines), line.tokens[Len(line.tokens)].right, D)

Emit(t, flines, D) == EmitLines(t, flines, 0, D)

\* ReshapeFittingSubpartitions on a node [head, arg_1 .. arg_n]: the children
\* are packed greedily, in order, into groups that fit the column limit; the
\* first group keeps the node's indentation, the others are indented by
\* wrap_spaces.  Applied in pre-order to every node of that policy.
RECURSIVE GroupEnd(_, _, _, _, _)
GroupEnd(ft, children, first, last, ind) ==
  IF /\ last < Len(children)
     /\ FitsOnLine(UnwrappedLine(children[first].uwline.lo,
                                 children[last + 1].uwline.hi, ind,
                                 "kFitOnLineElseExpand"), ft)
    THEN GroupEnd(ft, children, first, last + 1, ind)
    ELSE last

RECURSIVE FittingGroups(_, _, _, _)
FittingGroups(ft, children, first, node_ind) ==
  IF first > Len(children) THEN <<>>
  ELSE LET ind == IF first = 1 THEN node_ind ELSE node_ind + WrapSpaces
           last == GroupEnd(ft, children, first, first, ind)
       IN  <<TreeNode(UnwrappedLine(children[first].uwline.lo,
                                    children[last].uwline.hi, ind,
                                    "kFitOnLineElseExpand"),
                      SubSeq(children, first, last))>>
             \o FittingGroups(ft, children, last + 1, node_ind)

RECURSIVE ReshapePreOrder(_, _)
ReshapePreOrder(node, ft) ==
  LET reshaped ==
        IF /\ node.uwline.partition_policy = "kAppendFittingSubPartitions"
           /\ Len(node.children) > 1
          THEN [node EXCEPT !.children =
                  FittingGroups(ft, node.children, 1, node.uwline.indentation_spaces)]
          ELSE node
  IN  [reshaped EXCEPT !.children =
         [i \in DOMAIN reshaped.children |->
            ReshapePreOrder(reshaped.children[i], ft)]]

\* The leaves of a partition tree, left to right.
RECURSIVE Leaves(_)
Leaves(node) ==
  IF node.children = <<>> THEN <<node.uwline>>
  ELSE Concat([i \in DOMAIN node.children |-> Leaves(node.children[i])])

\* Empty partitions only at the trailing position (the unwrapper's contract).
EmptyOnlyTrailing(tree) ==
  \A i, j \in DOMAIN Leaves(tree) :
    (i < j /\ IsEmpty(Leaves(tree)[i])) => IsEmpty(Leaves(tree)[j])

\* --------------------------------------------------------------------------
\* VerifyFormatting
\* --------------------------------------------------------------------------
\* A faulty verifier that looks at the re-analysis only and never compares
\* the two token streams.
VerifyFormatting_NoCompare(original, formatted_output, relex_ok, reparse_ok, token_errors) ==
  IF (~relex_ok \/ ~reparse_ok) /\ token_errors # 0 THEN "kDataLoss" ELSE "kOk"

\* relex_ok, reparse_ok and token_errors are what the re-analysis of the
\* formatted output reports (LexStatus, ParseStatus, TokenErrorMessages).
VerifyFormatting(original, formatted_output, relex_ok, reparse_ok, token_errors) ==
  IF (~relex_ok \/ ~reparse_ok) /\ token_errors # 0 THEN "kDataLoss"
  ELSE IF FormatEquivalent(original, formatted_output) # "kEquivalent" THEN "kDataLoss"
  ELSE "kOk"

\* ExecutionControl::AnyStop and ExecutionControl::Stream.
AnyStop(ctl) == ctl.any_stop

\* A faulty accessor that hands out the field as it is.
Stream_Unchecked(ctl) == ctl.stream

Stream(ctl) == IF ctl.stream # "nullptr" THEN ctl.stream ELSE "std::cout"

\* --------------------------------------------------------------------------
\* State
\* --------------------------------------------------------------------------
VARIABLES
  text,                \* FormatVerilog's text argument
  lines,               \* its LineNumberSet argument (enabled lines)
  control,             \* its ExecutionControl argument
  style,               \* its FormatStyle argument
  pc,                  \* position in FormatVerilog / Formatter::Format
  analysis,            \* what the analyzer reported for text
  disabled_ranges_,    \* Formatter::disabled_ranges_
  ftokens,             \* unwrapper_data.preformatted_tokens
  partitions,          \* *format_tokens_partitions
  unwrapped_lines,     \* Format's worklist
  next_line,           \* index of the worklist line the loop searches next
  partially_formatted_lines,  \* worklist indices whose search did not complete
  formatted_lines_,    \* Formatter::formatted_lines_
  format_status,       \* what Formatter::Format returned
  output_buffer,       \* FormatVerilog's output_buffer
  reanalysis,          \* what the analyzer reported for the formatted text
  formatted_stream,    \* the chunks written to formatted_stream
  diagnostics,         \* <<stream, what>> for every diagnostic printed
  status,              \* what FormatVerilog returned
  steps,               \* the phases run so far, in order
  cancel_requested,    \* the caller has asked the run to stop
  format_tokens_partition_view,  \* the view MakeUnwrappedLinesWorklist marked last
  cst_path,            \* linter: the syntax tree nodes from the root down to a statement
  cst_pos,             \* linter: index of the node the traversal visits next
  violations_,         \* DisableForkNoLabelsRule::violations_ (anchors, as indices)
  printed_roots,       \* tree printer: the root arguments of the calls of PrettyPrintVerilogTree so far
  cst,                 \* tree printer: the function-local static json of PrettyPrintVerilogTree
  verible_json,        \* tree printer: the contents of the file verible.json
  stream,              \* tree printer: the lines written to the text stream
  module_items,        \* detector: the children of the kModuleItemList of the file analysed last
  lines_of_code,       \* detector: AnalyzeOneFile's lines_of_code
  visitor_ranges_,     \* detector: AnUglyVisitor::ranges_ (the excluded line ranges)
  reversed_ranges,     \* detector: AnalyzeOneFile's ranges vector
  cout_line,           \* detector: the line of ranges AnalyzeOneFile printed
  exit_status,         \* detector: what AnalyzeOneFile returned
  optimized_tree,      \* layout optimizer: the tree handed to OptimizeTokenPartitionTree
  optimizer_style,     \* layout optimizer: its style argument
  knot_sets            \* layout optimizer: the knot set built for every leaf, in order

formatter_vars ==
  <<text, lines, control, style, pc, analysis, disabled_ranges_, ftokens,
    partitions, unwrapped_lines, next_line, partially_formatted_lines,
    formatted_lines_, format_status, output_buffer, reanalysis,
    formatted_stream, diagnostics, status, steps, cancel_requested,
    format_tokens_partition_view>>

\* The state of the other tool, the linter; the formatter never touches it.
linter_vars == <<cst_path, cst_pos, violations_>>

\* The state of the tree printer.
printer_vars == <<printed_roots, cst, verible_json, stream>>

\* The state of the stand-alone tools; formatter and linter never touch it.
\* The state of the detector (verilog_detect).
detector_vars ==
  <<module_items, lines_of_code, visitor_ranges_, reversed_ranges, cout_line, exit_status>>

\* The state of the layout optimizer.
optimizer_vars == <<optimized_tree, optimizer_style, knot_sets>>

tool_vars == <<printer_vars, detector_vars, optimizer_vars>>

vars == <<formatter_vars, linter_vars, tool_vars>>

\* --------------------------------------------------------------------------
\* The tree printer (src/verilog/CST/verilog_tree_print.cc)
\* --------------------------------------------------------------------------
MaxPrints == 2
MaxChildren == 2

Absent == "absent"

\* A json value as the printer builds it: null, or an object with some of
\* the keys "type", "token" and "nodes"; "nodes" is only ever assigned a
\* non-empty array.
Json(type, token, nodes) == [type |-> type, token |-> token, nodes |-> nodes]
NullJson == Json(Absent, Absent, <<>>)

\* Syntax tree symbols: leaves with a token, nodes with a tag and children,
\* and the null pointer a node may hold in place of a child.
SyntaxTreeLeaf(token) == [kind |-> "leaf", tag |-> Absent, token |-> token, children |-> <<>>]
SyntaxTreeNode(tag, children) == [kind |-> "node", tag |-> tag, token |-> Absent, children |-> children]
NullSymbol == [kind |-> "nullptr", tag |-> Absent, token |-> Absent, children |-> <<>>]

PrintTokens == {"x", "y"}
PrintTags == {"kBegin", "kEnd"}
PrintLeaves == {SyntaxTreeLeaf(t) : t \in PrintTokens}
PrintChildren == {NullSymbol} \cup PrintLeaves \cup {SyntaxTreeNode("kBegin", <<>>)}
\* The trees handed to the printer.
PrintRoots ==
  PrintLeaves \cup
  {SyntaxTreeNode(g, ch) : g \in PrintTags,
                           ch \in UNION {[1..k -> PrintChildren] : k \in 0..MaxChildren}}

\* VerilogPrettyPrinter::Visit with *cst_current = current: the value it
\* leaves there.  A leaf assigns "token"; a node assigns "type" and, when
\* some child left a non-empty value, "nodes".
RECURSIVE Visit(_, _)
RECURSIVE VisitChildren(_)
VisitChildren(children) ==
  IF children = <<>> THEN <<>>
  ELSE LET child == Head(children)
           json_subnode == IF child # NullSymbol THEN Visit(child, NullJson) ELSE NullJson
       IN  (IF json_subnode # NullJson THEN <<json_subnode>> ELSE <<>>)
             \o VisitChildren(Tail(children))

Visit(symbol, current) ==
  IF symbol.kind = "leaf"
    THEN [current EXCEPT !.token = symbol.token]
    ELSE LET json_nodes == VisitChildren(symbol.children)
         IN  [current EXCEPT !.type = symbol.tag,
                             !.nodes = IF json_nodes # <<>> THEN json_nodes ELSE @]

\* The lines Visit writes to the text stream, as <<indent, text, label>>.
RECURSIVE StreamLines(_, _)
RECURSIVE StreamLinesOfChildren(_, _)
StreamLinesOfChildren(children, indent_) ==
  IF children = <<>> THEN <<>>
  ELSE (IF Head(children) # NullSymbol THEN StreamLines(Head(children), indent_) ELSE <<>>)
         \o StreamLinesOfChildren(Tail(children), indent_)

StreamLines(symbol, indent_) ==
  IF symbol.kind = "leaf"
    THEN <<<<indent_, "leaf", symbol.token>>>>
    ELSE <<<<indent_, "Node {", symbol.tag>>>>
           \o StreamLinesOfChildren(symbol.children, indent_ + 2)
           \o <<<<indent_, "}", Absent>>>>

\* json::dump: the document, as the sequence of its lexical elements; an
\* object's keys come in alphabetical order.
RECURSIVE Dump(_)
RECURSIVE DumpArray(_)
DumpArray(array) ==
  IF array = <<>> THEN <<>> ELSE Dump(Head(array)) \o DumpArray(Tail(array))

Dump(json) ==
  IF json = NullJson THEN <<"null">>
  ELSE <<"{">>
         \o (IF json.nodes # <<>> THEN <<"nodes", "[">> \o DumpArray(json.nodes) \o <<"]">> ELSE <<>>)
         \o (IF json.token # Absent THEN <<"token", json.token>> ELSE <<>>)
         \o (IF json.type # Absent THEN <<"type", json.type>> ELSE <<>>)
         \o <<"}">>

\* A fresh process: nothing printed, the static json null, no file.
PrinterIdle ==
  /\ printed_roots = <<>>
  /\ cst = NullJson
  /\ verible_json = <<>>
  /\ stream = <<>>

\* --------------------------------------------------------------------------
\* The detector (src/verilog/tools/detector/verilog_detect.cc)
\* --------------------------------------------------------------------------
MaxLinesOfCode == 3
MaxModuleItems == 2

\* A child of the kModuleItemList, as the visitor sees it: whether it holds
\* a function call nested in a function call, and the lines (from 1) on
\* which its first and its last leaf start; both are 0 for a child without
\* leaves.
ModuleItem(nested_call, left_line, right_line) ==
  [nested_call |-> nested_call, left_line |-> left_line, right_line |-> right_line]

\* The item lists of a file of n lines: the leaves of a later child do not
\* start before those of an earlier one.
ModuleItemLists(n) ==
  LET items == {ModuleItem(b, 0, 0) : b \in BOOLEAN} \cup
               {ModuleItem(b, l, r) : b \in BOOLEAN, l \in 1..n, r \in 1..n}
  IN  {s \in UNION {[1..k -> items] : k \in 0..MaxModuleItems} :
         /\ \A i \in DOMAIN s : s[i].left_line <= s[i].right_line
         /\ \A i, j \in DOMAIN s :
              (i < j /\ s[i].right_line > 0 /\ s[j].left_line > 0)
                => s[i].right_line <= s[j].left_line}

\* AnUglyVisitor::Visit on the kModuleItemList (lines 223-246): one
\* excluded range per child that aborted and has leaves.
RECURSIVE VisitModuleItemList(_)
VisitModuleItemList(items) ==
  IF items = <<>> THEN <<>>
  ELSE LET child == Head(items)
           abort_ == child.nested_call
       IN  (IF abort_ /\ child.left_line > 0 /\ child.right_line > 0
              THEN <<<<child.left_line, child.right_line>>>>
              ELSE <<>>)
             \o VisitModuleItemList(Tail(items))

\* The loop of lines 291-295: one range per excluded range, from itr_range
\* up to the line before it.
RECURSIVE RangesBefore(_, _)
RangesBefore(excluded, itr_range) ==
  IF excluded = <<>> THEN <<>>
  ELSE <<<<itr_range, Head(excluded)[1] - 1>>>>
         \o RangesBefore(Tail(excluded), Head(excluded)[2] + 1)

\* itr_range behind the loop.
LastItrRange(excluded) ==
  IF excluded = <<>> THEN 1 ELSE excluded[Len(excluded)][2] + 1

\* Lines 288-301: the ranges vector.
ReversedRanges(excluded, n) ==
  IF Len(excluded) > 0
    THEN RangesBefore(excluded, 1)
           \o (IF LastItrRange(excluded) < n
                 THEN <<<<LastItrRange(excluded), n>>>> ELSE <<>>)
    ELSE <<<<1, n>>>>

\* Lines 303-307: "first-second," for every range, as characters.
RECURSIVE RangeList(_)
RangeList(rs) ==
  IF rs = <<>> THEN <<>>
  ELSE <<ToString(Head(rs)[1]), "-", ToString(Head(rs)[2]), ",">>
         \o RangeList(Tail(rs))

\* Line 309: the list without its last character.
WithoutLastChar(sv) == SubSeq(sv, 1, Len(sv) - 1)

\* Line 308 makes a string_view of the temporary ss.str(), which is gone
\* when line 309 reads it: the bytes printed are those of the list or
\* whatever has taken their place.
Indeterminate == <<"?">>
PrintedLines(rs) == {WithoutLastChar(RangeList(rs)), Indeterminate}

\* No file analysed yet.
DetectorIdle ==
  /\ module_items = <<>>
  /\ lines_of_code = 0
  /\ visitor_ranges_ = <<>>
  /\ reversed_ranges = <<>>
  /\ cout_line = <<>>
  /\ exit_status = 0

\* --------------------------------------------------------------------------
\* The layout optimizer (src/unnamed/part_000, layout_optimizer.cc)
\* --------------------------------------------------------------------------
MaxLeafTokens == 2
MaxTokenLength == 2

\* A format token as Layout::Length reads it.
LayoutToken(spaces_required, length) ==
  [spaces_required |-> spaces_required, length |-> length]

\* The token ranges of a leaf partition: the first token with or without a
\* space before it.
LeafTokens ==
  UNION {[1..k -> {LayoutToken(sp, n) : sp \in {0, 1}, n \in 1..MaxTokenLength}] :
           k \in 1..MaxLeafTokens}

\* A partition with its token range and its children.
LayoutPartition(tokens, children) == [tokens |-> tokens, children |-> children]

\* The trees handed to the optimizer: a leaf alone, or a root that spans
\* two leaves, the first of one token.
LayoutPartitions ==
  {LayoutPartition(t, <<>>) : t \in LeafTokens} \cup
  {LayoutPartition(t1 \o t2, <<LayoutPartition(t1, <<>>), LayoutPartition(t2, <<>>)>>) :
     t1 \in {t \in LeafTokens : Len(t) = 1}, t2 \in LeafTokens}

\* The styles: a column limit around the spans of the leaves and two
\* penalties.
BasicFormatStyles ==
  [column_limit : 1..(ColumnLimit + 1), over_column_limit_penalty : {1, 2}]

\* Layout::Length (lines 624-633).
RECURSIVE SumOfTokens(_)
SumOfTokens(tokens_) ==
  IF tokens_ = <<>> THEN 0
  ELSE Head(tokens_).spaces_required + Head(tokens_).length + SumOfTokens(Tail(tokens_))

Length(tokens_) == SumOfTokens(tokens_) - tokens_[1].spaces_required

Knot(column, span, intercept, gradient) ==
  [column |-> column, span |-> span, intercept |-> intercept, gradient |-> gradient]

\* A faulty knot set that starts a long line at no cost.
KnotSetOfLeaf_NoIntercept(span, basic_style) == IF span < basic_style.column_limit THEN <<Knot(0, span, 0, 0), Knot(basic_style.column_limit - span, span, 0, basic_style.over_column_limit_penalty)>> ELSE <<Knot(0, span, 0, basic_style.over_column_limit_penalty)>>

\* Lines 807-818: the knot set of a leaf of the given span.
KnotSetOfLeaf(span, basic_style) ==
  IF span < basic_style.column_limit
    THEN <<Knot(0, span, 0, 0),
           Knot(basic_style.column_limit - span, span, 0,
                basic_style.over_column_limit_penalty)>>
    ELSE <<Knot(0, span,
                (span - basic_style.column_limit) * basic_style.over_column_limit_penalty,
                basic_style.over_column_limit_penalty)>>

\* TraverseTree (lines 794-822): the knot sets of the leaves, left to right.
RECURSIVE TraverseTree(_, _)
RECURSIVE TraverseChildren(_, _)
TraverseChildren(children, basic_style) ==
  IF children = <<>> THEN <<>>
  ELSE TraverseTree(Head(children), basic_style)
         \o TraverseChildren(Tail(children), basic_style)

TraverseTree(n, basic_style) ==
  IF Len(n.children) > 0
    THEN TraverseChildren(n.children, basic_style)
    ELSE <<KnotSetOfLeaf(Length(n.tokens), basic_style)>>

\* The optimizer has not run.
OptimizerIdle ==
  /\ optimized_tree = LayoutPartition(<<>>, <<>>)
  /\ optimizer_style = [column_limit |-> ColumnLimit, over_column_limit_penalty |-> 1]
  /\ knot_sets = <<>>

ToolsIdle == PrinterIdle /\ DetectorIdle /\ OptimizerIdle

\* No lint run under way.
LinterIdle ==
  /\ cst_path = <<>>
  /\ cst_pos = 1
  /\ violations_ = {}

NoTree == TreeNode(UnwrappedLine(0, 0, 0, "kUninitialized"), <<>>)
\* No view: MakeUnwrappedLinesWorklist is not the step that ran last.
NoView == ExpandableTreeView(NoTree)
NoAnalysis == [lex_ok |-> TRUE, parse_ok |-> TRUE, token_errors |-> 0,
               tokens |-> <<>>, ports |-> <<>>]

\* The state on entry to FormatVerilog, whatever the arguments.
Entry ==
  /\ pc = "Analyze"
  /\ analysis = NoAnalysis
  /\ disabled_ranges_ = {}
  /\ ftokens = <<>>
  /\ partitions = NoTree
  /\ unwrapped_lines = <<>>
  /\ next_line = 1
  /\ partially_formatted_lines = <<>>
  /\ formatted_lines_ = <<>>
  /\ format_status = "none"
  /\ output_buffer = <<>>
  /\ reanalysis = NoAnalysis
  /\ formatted_stream = <<>>
  /\ diagnostics = <<>>
  /\ status = "none"
  /\ steps = <<>>
  /\ cancel_requested = FALSE
  /\ format_tokens_partition_view = NoView
  /\ LinterIdle
  /\ ToolsIdle

\* The execution controls: each diagnostic on or off, a small and a large
\* search budget, the stop flag, the caller's stream or none.
ExecutionControls ==
  [show_token_partition_tree : BOOLEAN,
   show_largest_token_partitions : {0, 1},
   show_equally_optimal_wrappings : BOOLEAN,
   max_search_states : {1, MaxSearchStates},
   any_stop : BOOLEAN,
   stream : {"caller", "nullptr"}]

\* Controls of the driver specification: the stop flag is set exactly when
\* the partition diagnostics are asked for, and the output goes to the
\* caller's stream.
DriverControls ==
  {c \in ExecutionControls :
     /\ c.show_token_partition_tree <=> c.any_stop
     /\ (c.show_largest_token_partitions # 0) <=> c.any_stop
     /\ ~c.show_equally_optimal_wrappings
     /\ c.stream = "caller"}

Init ==
  /\ text \in TextsUpTo(MaxTextLen)
  /\ lines = {}
  /\ control \in DriverControls
  /\ style = [format_module_port_declarations |-> TRUE]
  /\ Entry

\* --------------------------------------------------------------------------
\* FormatVerilog and Formatter::Format, phase by phase
\* --------------------------------------------------------------------------
\* The port declaration lists the syntax tree may hold: none, or one that
\* spans some run of tokens.
PortLists(toks) ==
  {<<>>} \cup {<<<<toks[ij[1]].left, toks[ij[2]].right>>>> :
                 ij \in {x \in (1..Len(toks)) \X (1..Len(toks)) : x[1] <= x[2]}}

\* A faulty check that forgets the parse status.
AnalysisFailed_LexOnly(a) == ~a.lex_ok

\* Lines 154-156: the input is refused when lexing or parsing failed.
AnalysisFailed(a) == ~a.lex_ok \/ ~a.parse_ok

\* Lines 151-166: lex and parse; exit on failure.
Analyze ==
  /\ pc = "Analyze"
  /\ \E parse_ok \in BOOLEAN :
     \E ports \in (IF parse_ok /\ ~style.format_module_port_declarations
                     THEN PortLists(Lex(text))
                     ELSE {<<>>}) :
       /\ analysis' = [lex_ok |-> LexOk(text), parse_ok |-> parse_ok,
                       token_errors |-> 0, tokens |-> Lex(text), ports |-> ports]
       /\ IF AnalysisFailed([lex_ok |-> LexOk(text), parse_ok |-> parse_ok])
            THEN /\ status' = "kInvalidArgument"
                 /\ pc' = "Done"
            ELSE /\ status' = status
                 /\ pc' = "SelectLines"
  /\ steps' = Append(steps, "Analyze")
  /\ UNCHANGED <<linter_vars, tool_vars>>
  /\ format_tokens_partition_view' = NoView
  /\ UNCHANGED <<text, lines, control, style, disabled_ranges_, ftokens,
                 partitions, unwrapped_lines, next_line, partially_formatted_lines,
                 formatted_lines_, format_status, output_buffer, reanalysis,
                 formatted_stream, diagnostics, cancel_requested>>

\* Lines 168-170 and 369-372: construct the Formatter, select the lines.
SelectLines ==
  /\ pc = "SelectLines"
  /\ disabled_ranges_' = EnabledLinesToDisabledByteRanges(lines, text)
  /\ formatted_lines_' = <<>>
  /\ pc' = "Annotate"
  /\ steps' = Append(steps, "SelectLines")
  /\ UNCHANGED <<linter_vars, tool_vars>>
  /\ format_tokens_partition_view' = NoView
  /\ UNCHANGED <<text, lines, control, style, analysis, ftokens, partitions,
                 unwrapped_lines, next_line, partially_formatted_lines,
                 format_status, output_buffer, reanalysis, formatted_stream,
                 diagnostics, status, cancel_requested>>

\* What the annotator may attach to the tokens: the first token keeps the
\* defaults, every later one gets its required spaces and a break decision.
Annotations(ft) ==
  {a \in [DOMAIN ft -> [spaces_required : {0, 1},
                        break_decision : {"Undecided", "MustAppend", "MustWrap"}]] :
     Len(ft) > 0 => a[1] = [spaces_required |-> 0, break_decision |-> "Undecided"]}

Annotated(ft, a) ==
  [i \in DOMAIN ft |->
     [ft[i] EXCEPT !.before.spaces_required = a[i].spaces_required,
                   !.before.break_decision = a[i].break_decision]]

\* Lines 387-406: the format tokens, annotated.
Annotate ==
  /\ pc = "Annotate"
  /\ \E a \in Annotations(PreFormatTokens(analysis.tokens)) :
       ftokens' = Annotated(PreFormatTokens(analysis.tokens), a)
  /\ pc' = "DisableRanges"
  /\ steps' = Append(steps, "Annotate")
  /\ UNCHANGED <<linter_vars, tool_vars>>
  /\ format_tokens_partition_view' = NoView
  /\ UNCHANGED <<text, lines, control, style, analysis, disabled_ranges_,
                 partitions, unwrapped_lines, next_line, partially_formatted_lines,
                 formatted_lines_, format_status, output_buffer, reanalysis,
                 formatted_stream, diagnostics, status, cancel_requested>>

\* The ranges of the module port declaration lists (lines 412-422).
RECURSIVE PortRanges(_)
PortRanges(ports) ==
  IF ports = <<>> THEN {}
  ELSE Interval(ByteOffsetRange(Head(ports)[1], Head(ports)[2])[1],
                ByteOffsetRange(Head(ports)[1], Head(ports)[2])[2])
         \cup PortRanges(Tail(ports))

\* A faulty step that drops the ranges SelectLines left.
DisabledRangesOfFormat_Overwrite(ranges, t, toks, fmt_style, ports) == DisableFormattingRanges(t, toks) \cup (IF ~fmt_style.format_module_port_declarations THEN PortRanges(ports) ELSE {})

\* Lines 408-422: the comment directives and the syntax-tree regions join
\* the ranges SelectLines left.
DisabledRangesOfFormat(ranges, t, toks, fmt_style, ports) ==
  (ranges \cup DisableFormattingRanges(t, toks))
    \cup (IF ~fmt_style.format_module_port_declarations THEN PortRanges(ports) ELSE {})

DisableRanges ==
  /\ pc = "DisableRanges"
  /\ disabled_ranges_' = DisabledRangesOfFormat(disabled_ranges_, text,
                                                analysis.tokens, style, analysis.ports)
  /\ pc' = "PreserveSpaces"
  /\ steps' = Append(steps, "DisableRanges")
  /\ UNCHANGED <<linter_vars, tool_vars>>
  /\ format_tokens_partition_view' = NoView
  /\ UNCHANGED <<text, lines, control, style, analysis, ftokens, partitions,
                 unwrapped_lines, next_line, partially_formatted_lines,
                 formatted_lines_, format_status, output_buffer, reanalysis,
                 formatted_stream, diagnostics, status, cancel_requested>>

\* Lines 424-426.
PreserveSpaces ==
  /\ pc = "PreserveSpaces"
  /\ ftokens' = PreserveSpacesOnDisabledTokenRanges(ftokens, disabled_ranges_)
  /\ pc' = "Unwrap"
  /\ steps' = Append(steps, "PreserveSpaces")
  /\ UNCHANGED <<linter_vars, tool_vars>>
  /\ format_tokens_partition_view' = NoView
  /\ UNCHANGED <<text, lines, control, style, analysis, disabled_ranges_,
                 partitions, unwrapped_lines, next_line, partially_formatted_lines,
                 formatted_lines_, format_status, output_buffer, reanalysis,
                 formatted_stream, diagnostics, status, cancel_requested>>

\* Every interior node groups at least two partitions and carries one of
\* the unwrapper's three policies.
RECURSIVE GroupsOnly(_)
GroupsOnly(node) ==
  node.children # <<>> =>
    /\ Len(node.children) >= 2
    /\ node.uwline.partition_policy # "kInline"
    /\ \A i \in DOMAIN node.children : GroupsOnly(node.children[i])

\* The trees the unwrapper may hand over for n tokens.
UnwrapperTrees(n) ==
  {t \in TreesUpTo(MaxTreeNodes, 0, n) : EmptyOnlyTrailing(t) /\ GroupsOnly(t)}

\* Line 429: the unwrapper hands over some partition tree of the tokens.
Unwrap ==
  /\ pc = "Unwrap"
  /\ partitions' \in UnwrapperTrees(Len(ftokens))
  /\ pc' = "Diagnostics"
  /\ steps' = Append(steps, "Unwrap")
  /\ UNCHANGED <<linter_vars, tool_vars>>
  /\ format_tokens_partition_view' = NoView
  /\ UNCHANGED <<text, lines, control, style, analysis, disabled_ranges_, ftokens,
                 unwrapped_lines, next_line, partially_formatted_lines,
                 formatted_lines_, format_status, output_buffer, reanalysis,
                 formatted_stream, diagnostics, status, cancel_requested>>

\* Format returns: its locals are gone.
LocalsGone ==
  /\ ftokens' = <<>>
  /\ partitions' = NoTree
  /\ unwrapped_lines' = <<>>
  /\ next_line' = 1
  /\ partially_formatted_lines' = <<>>

\* Lines 432-449: the diagnostics, and the early return of a diagnostic stop.
DiagnosticsPrinted(ctl) ==
  (IF ctl.show_token_partition_tree
     THEN <<<<Stream(ctl), "Full token partition tree">>>> ELSE <<>>)
    \o (IF ctl.show_largest_token_partitions # 0
          THEN <<<<Stream(ctl), "largest token partitions">>>> ELSE <<>>)

\* A faulty Format that prints the diagnostics and carries on.
StopsAfterDiagnostics_Never(ctl) == FALSE

\* Lines 446-448: Format returns here in any diagnostic mode.
StopsAfterDiagnostics(ctl) == AnyStop(ctl)

Diagnostics ==
  /\ pc = "Diagnostics"
  /\ diagnostics' = diagnostics \o DiagnosticsPrinted(control)
  /\ IF StopsAfterDiagnostics(control)
       THEN /\ format_status' = "kOk"
            /\ pc' = "FormatReturned"
            /\ LocalsGone
       ELSE /\ format_status' = format_status
            /\ pc' = "Reshape"
            /\ UNCHANGED <<ftokens, partitions, unwrapped_lines, next_line,
                           partially_formatted_lines>>
  /\ steps' = Append(steps, "Diagnostics")
  /\ UNCHANGED <<linter_vars, tool_vars>>
  /\ format_tokens_partition_view' = NoView
  /\ UNCHANGED <<text, lines, control, style, analysis, disabled_ranges_,
                 formatted_lines_, output_buffer, reanalysis, formatted_stream,
                 status, cancel_requested>>

\* Lines 451-462.
Reshape ==
  /\ pc = "Reshape"
  /\ partitions' = ReshapePreOrder(partitions, ftokens)
  /\ pc' = "Worklist"
  /\ steps' = Append(steps, "Reshape")
  /\ UNCHANGED <<linter_vars, tool_vars>>
  /\ format_tokens_partition_view' = NoView
  /\ UNCHANGED <<text, lines, control, style, analysis, disabled_ranges_, ftokens,
                 unwrapped_lines, next_line, partially_formatted_lines,
                 formatted_lines_, format_status, output_buffer, reanalysis,
                 formatted_stream, diagnostics, status, cancel_requested>>

\* Lines 464-472.  The partition tree is not read again.
Worklist ==
  /\ pc = "Worklist"
  /\ unwrapped_lines' = MakeUnwrappedLinesWorklist(partitions, ftokens)
  /\ format_tokens_partition_view' =
       ApplyPostOrder(ExpandableTreeView(partitions), ftokens)
  /\ partitions' = NoTree
  /\ next_line' = 1
  /\ partially_formatted_lines' = <<>>
  /\ pc' = "Search"
  /\ steps' = Append(steps, "Worklist")
  /\ UNCHANGED <<linter_vars, tool_vars>>
  /\ UNCHANGED <<text, lines, control, style, analysis, disabled_ranges_, ftokens,
                 formatted_lines_, format_status, output_buffer,
                 reanalysis, formatted_stream, diagnostics, status,
                 cancel_requested>>

\* A loop that would leave as soon as a stop is requested.
LoopContinues_UnlessStopped(next, worklist, stop_requested) ==
  next <= Len(worklist) /\ ~stop_requested

\* A faulty loop that gives up after the first line of the worklist.
LoopContinues_FirstLineOnly(next, worklist, stop_requested) == next <= Len(worklist) /\ next <= 1

\* Line 473: the loop runs over every line of the worklist; it reads no
\* request to stop.
LoopContinues(next, worklist, stop_requested) == next <= Len(worklist)

\* Lines 473-489: one iteration of the loop over the worklist.
SearchLine ==
  /\ pc = "Search"
  /\ LoopContinues(next_line, unwrapped_lines, cancel_requested)
  /\ LET excerpt == SearchLineWraps(unwrapped_lines[next_line], ftokens,
                                    control.max_search_states)
     IN  /\ formatted_lines_' = Append(formatted_lines_, excerpt)
         /\ partially_formatted_lines' =
              IF ~excerpt.completed_formatting
                THEN Append(partially_formatted_lines, next_line)
                ELSE partially_formatted_lines
  /\ \E several \in (IF control.show_equally_optimal_wrappings
                       THEN BOOLEAN ELSE {FALSE}) :
       diagnostics' = IF several
                        THEN Append(diagnostics,
                                    <<Stream(control), "equally optimal wrappings">>)
                        ELSE diagnostics
  /\ next_line' = next_line + 1
  /\ steps' = Append(steps, "SearchLine")
  /\ UNCHANGED <<linter_vars, tool_vars>>
  /\ format_tokens_partition_view' = NoView
  /\ UNCHANGED <<text, lines, control, style, pc, analysis, disabled_ranges_,
                 ftokens, partitions, unwrapped_lines, format_status,
                 output_buffer, reanalysis, formatted_stream, status,
                 cancel_requested>>

\* Lines 491-505: Format reports the lines whose search did not complete.
FormatReturn ==
  /\ pc = "Search"
  /\ ~LoopContinues(next_line, unwrapped_lines, cancel_requested)
  /\ format_status' = IF partially_formatted_lines # <<>>
                        THEN "kResourceExhausted" ELSE "kOk"
  /\ pc' = "FormatReturned"
  /\ LocalsGone
  /\ steps' = Append(steps, "FormatReturn")
  /\ UNCHANGED <<linter_vars, tool_vars>>
  /\ format_tokens_partition_view' = NoView
  /\ UNCHANGED <<text, lines, control, style, analysis, disabled_ranges_,
                 formatted_lines_, output_buffer, reanalysis, formatted_stream,
                 diagnostics, status, cancel_requested>>

\* A faulty driver that halts on ResourceExhausted and on nothing else.
HaltsImmediately_OnResourceExhausted(fstatus) == fstatus = "kResourceExhausted"

\* A faulty driver for which ResourceExhausted is fatal too.
HaltsImmediately_OnAnyFailure(fstatus) == fstatus # "kOk"

\* Lines 174-178: any failure of Format but ResourceExhausted is fatal.
HaltsImmediately(fstatus) == fstatus # "kOk" /\ fstatus # "kResourceExhausted"

\* Lines 173-186: a fatal status ends the call, and so does a diagnostic
\* stop.
AfterFormat ==
  /\ pc = "FormatReturned"
  /\ IF HaltsImmediately(format_status)
       THEN /\ status' = format_status
            /\ pc' = "Done"
       ELSE IF AnyStop(control)
         THEN /\ status' = "kCancelled"
              /\ pc' = "Done"
         ELSE /\ status' = status
              /\ pc' = "Emit"
  /\ steps' = Append(steps, "AfterFormat")
  /\ UNCHANGED <<linter_vars, tool_vars>>
  /\ format_tokens_partition_view' = NoView
  /\ UNCHANGED <<text, lines, control, style, analysis, disabled_ranges_, ftokens,
                 partitions, unwrapped_lines, next_line, partially_formatted_lines,
                 formatted_lines_, format_status, output_buffer, reanalysis,
                 formatted_stream, diagnostics, cancel_requested>>

\* A faulty driver that emits straight into the caller's stream, before
\* the verification.
EmitBuffer_ToStream ==
  /\ pc = "Emit"
  /\ \A k \in DOMAIN formatted_lines_ : formatted_lines_[k].tokens # <<>>
  /\ pc' = "Verify"
  /\ output_buffer' = Emit(text, formatted_lines_, disabled_ranges_)
  /\ formatted_stream' = Append(formatted_stream, Bytes(output_buffer'))
  /\ steps' = Append(steps, "Emit")
  /\ UNCHANGED <<linter_vars, tool_vars>>
  /\ format_tokens_partition_view' = NoView
  /\ UNCHANGED <<text, lines, control, style, analysis, disabled_ranges_, ftokens,
                 partitions, unwrapped_lines, next_line, partially_formatted_lines,
                 formatted_lines_, format_status, reanalysis, diagnostics, status,
                 cancel_requested>>

\* Lines 188-191: render into the temporary buffer.  Taking front() or
\* back() of an excerpt without tokens is undefined.
EmitBuffer ==
  /\ pc = "Emit"
  /\ IF \E k \in DOMAIN formatted_lines_ : formatted_lines_[k].tokens = <<>>
       THEN /\ pc' = "Undefined"
            /\ output_buffer' = output_buffer
       ELSE /\ pc' = "Verify"
            /\ output_buffer' = Emit(text, formatted_lines_, disabled_ranges_)
  /\ steps' = Append(steps, "Emit")
  /\ UNCHANGED <<linter_vars, tool_vars>>
  /\ format_tokens_partition_view' = NoView
  /\ UNCHANGED <<text, lines, control, style, analysis, disabled_ranges_, ftokens,
                 partitions, unwrapped_lines, next_line, partially_formatted_lines,
                 formatted_lines_, format_status, reanalysis, formatted_stream,
                 diagnostics, status, cancel_requested>>

\* Lines 193-198 and 95-145: verify the buffer against the input.
Verify ==
  /\ pc = "Verify"
  /\ \E reparse_ok \in BOOLEAN :
     \E token_errors \in (IF LexOk(Bytes(output_buffer)) /\ reparse_ok
                            THEN {0} ELSE {0, 1}) :
       /\ reanalysis' = [lex_ok |-> LexOk(Bytes(output_buffer)),
                         parse_ok |-> reparse_ok, token_errors |-> token_errors,
                         tokens |-> Lex(Bytes(output_buffer)), ports |-> <<>>]
       /\ LET verify_status ==
                VerifyFormatting(text, Bytes(output_buffer),
                                 LexOk(Bytes(output_buffer)), reparse_ok, token_errors)
          IN  IF verify_status # "kOk"
                THEN /\ status' = verify_status
                     /\ pc' = "Done"
                ELSE /\ status' = status
                     /\ pc' = "Commit"
  /\ steps' = Append(steps, "Verify")
  /\ UNCHANGED <<linter_vars, tool_vars>>
  /\ format_tokens_partition_view' = NoView
  /\ UNCHANGED <<text, lines, control, style, analysis, disabled_ranges_, ftokens,
                 partitions, unwrapped_lines, next_line, partially_formatted_lines,
                 formatted_lines_, format_status, output_buffer, formatted_stream,
                 diagnostics, cancel_requested>>

\* Lines 200-202: commit the verified text and return Format's status.
Commit ==
  /\ pc = "Commit"
  /\ formatted_stream' = Append(formatted_stream, Bytes(output_buffer))
  /\ status' = format_status
  /\ pc' = "Done"
  /\ steps' = Append(steps, "Commit")
  /\ UNCHANGED <<linter_vars, tool_vars>>
  /\ format_tokens_partition_view' = NoView
  /\ UNCHANGED <<text, lines, control, style, analysis, disabled_ranges_, ftokens,
                 partitions, unwrapped_lines, next_line, partially_formatted_lines,
                 formatted_lines_, format_status, output_buffer, reanalysis,
                 diagnostics, cancel_requested>>

Next ==
  \/ Analyze
  \/ SelectLines
  \/ Annotate
  \/ DisableRanges
  \/ PreserveSpaces
  \/ Unwrap
  \/ Diagnostics
  \/ Reshape
  \/ Worklist
  \/ SearchLine
  \/ FormatReturn
  \/ AfterFormat
  \/ EmitBuffer
  \/ Verify
  \/ Commit

Spec == Init /\ [][Next]_vars

\* --------------------------------------------------------------------------
\* The driver with a caller that may ask for the run to stop
\* --------------------------------------------------------------------------
\* The search stage of Formatter::Format: the worklist and the loop over it.
SearchPhases == {"Worklist", "Search"}

\* The caller raises its request to stop, once, while the search stage
\* runs (a request raised earlier leaves the same flag set when the loop
\* starts).  Nothing in lines 464-506 reads such a request.
RequestCancel ==
  /\ pc \in SearchPhases
  /\ ~cancel_requested
  /\ cancel_requested' = TRUE
  /\ steps' = Append(steps, "RequestCancel")
  /\ UNCHANGED <<linter_vars, tool_vars>>
  /\ format_tokens_partition_view' = NoView
  /\ UNCHANGED <<text, lines, control, style, pc, analysis, disabled_ranges_,
                 ftokens, partitions, unwrapped_lines, next_line,
                 partially_formatted_lines, formatted_lines_, format_status,
                 output_buffer, reanalysis, formatted_stream, diagnostics, status>>

InitCancel ==
  /\ text \in {t \in TextsUpTo(MaxTextLen) : LexOk(t)}
  /\ lines = {}
  /\ control \in {c \in DriverControls : c.max_search_states = MaxSearchStates}
  /\ style = [format_module_port_declarations |-> TRUE]
  /\ Entry

NextCancel == Next \/ RequestCancel

SpecCancel == InitCancel /\ [][NextCancel]_vars

\* --------------------------------------------------------------------------
\* The worklist builder on its own: every partition tree over the tokens
\* of a one-line text, reshaped first or taken as it is
\* --------------------------------------------------------------------------
PhasesBefore(p) ==
  CASE p = "Reshape" -> <<"Analyze", "SelectLines", "Annotate", "DisableRanges",
                          "PreserveSpaces", "Unwrap", "Diagnostics">>
    [] p = "Worklist" -> <<"Analyze", "SelectLines", "Annotate", "DisableRanges",
                           "PreserveSpaces", "Unwrap", "Diagnostics", "Reshape">>

\* Texts of one line that lex, without blanks at either end.
OneLineTexts ==
  {t \in TextsUpTo(MaxTextLen) :
     /\ LexOk(t)
     /\ \A i \in DOMAIN t : t[i] # "\n"
     /\ t # <<>> => (t[1] # " " /\ t[Len(t)] # " ")}

InitWorklist ==
  /\ text \in OneLineTexts
  /\ lines = {}
  /\ control \in {c \in DriverControls : ~c.any_stop /\ c.max_search_states = MaxSearchStates}
  /\ style = [format_module_port_declarations |-> TRUE]
  /\ pc \in {"Reshape", "Worklist"}
  /\ analysis = [lex_ok |-> TRUE, parse_ok |-> TRUE, token_errors |-> 0,
                 tokens |-> Lex(text), ports |-> <<>>]
  /\ disabled_ranges_ = {}
  /\ \E a \in Annotations(PreFormatTokens(Lex(text))) :
       ftokens = Annotated(PreFormatTokens(Lex(text)), a)
  /\ partitions \in TreesUpTo(MaxTreeNodes, 0, Len(Lex(text)))
  /\ unwrapped_lines = <<>>
  /\ next_line = 1
  /\ partially_formatted_lines = <<>>
  /\ formatted_lines_ = <<>>
  /\ format_status = "none"
  /\ output_buffer = <<>>
  /\ reanalysis = NoAnalysis
  /\ formatted_stream = <<>>
  /\ diagnostics = <<>>
  /\ status = "none"
  /\ steps = PhasesBefore(pc)
  /\ cancel_requested = FALSE
  /\ format_tokens_partition_view = NoView
  /\ LinterIdle
  /\ ToolsIdle

NextWorklist == Reshape \/ Worklist

SpecWorklist == InitWorklist /\ [][NextWorklist]_vars

\* --------------------------------------------------------------------------
\* The search loop on its own: texts of several one-letter words, so that
\* one worklist can hold a line whose search completes and one whose
\* search does not
\* --------------------------------------------------------------------------
\* Most words of a text.
MaxSearchTokens == 3

SpacedWords(k) == [i \in 1..(2 * k - 1) |-> IF i % 2 = 1 THEN "a" ELSE " "]

SearchTexts == {SpacedWords(k) : k \in 1..MaxSearchTokens}

InitSearch ==
  /\ text \in SearchTexts
  /\ lines = {}
  /\ control \in {c \in DriverControls : ~c.any_stop}
  /\ style = [format_module_port_declarations |-> TRUE]
  /\ pc = "Reshape"
  /\ analysis = [lex_ok |-> TRUE, parse_ok |-> TRUE, token_errors |-> 0,
                 tokens |-> Lex(text), ports |-> <<>>]
  /\ disabled_ranges_ = {}
  /\ \E a \in Annotations(PreFormatTokens(Lex(text))) :
       ftokens = Annotated(PreFormatTokens(Lex(text)), a)
  /\ partitions \in UnwrapperTrees(Len(Lex(text)))
  /\ unwrapped_lines = <<>>
  /\ next_line = 1
  /\ partially_formatted_lines = <<>>
  /\ formatted_lines_ = <<>>
  /\ format_status = "none"
  /\ output_buffer = <<>>
  /\ reanalysis = NoAnalysis
  /\ formatted_stream = <<>>
  /\ diagnostics = <<>>
  /\ status = "none"
  /\ steps = PhasesBefore("Reshape")
  /\ cancel_requested = FALSE
  /\ format_tokens_partition_view = NoView
  /\ LinterIdle
  /\ ToolsIdle

NextSearch == Reshape \/ Worklist \/ SearchLine \/ FormatReturn

SpecSearch == InitSearch /\ [][NextSearch]_vars

\* --------------------------------------------------------------------------
\* The marking pass on its own: texts with //-comments and blank lines
\* behind them, every set of disabled bytes
\* --------------------------------------------------------------------------
MarkChars == {"a", "/", "\n"}

\* One byte more than elsewhere: a comment, its newline, a blank line
\* and a token.
MarkTexts ==
  {t \in UNION {[1..k -> MarkChars] : k \in 1..(MaxTextLen + 1)} : Len(Lex(t)) >= 1}

\* Annotations that ask for one space before every later token, force the
\* wrap behind a //-comment and decide every other break in every way the
\* annotator can.
MarkAnnotations(ft) ==
  {a \in Annotations(ft) :
     \A i \in 2..Len(ft) :
       /\ a[i].spaces_required = 1
       /\ ft[i - 1].token_enum = "TK_EOL_COMMENT" => a[i].break_decision = "MustWrap"}

\* Format is about to mark the disabled tokens of one of the texts.
AboutToMark(texts) ==
  /\ text \in texts
  /\ lines = {}
  /\ control \in {c \in DriverControls : ~c.any_stop /\ c.max_search_states = MaxSearchStates}
  /\ style = [format_module_port_declarations |-> TRUE]
  /\ pc = "PreserveSpaces"
  /\ analysis = [lex_ok |-> TRUE, parse_ok |-> TRUE, token_errors |-> 0,
                 tokens |-> Lex(text), ports |-> <<>>]
  /\ \E a \in MarkAnnotations(PreFormatTokens(Lex(text))) :
       ftokens = Annotated(PreFormatTokens(Lex(text)), a)
  /\ disabled_ranges_ \in (SUBSET (0..(Len(text) - 1))) \ {{}}
  /\ partitions = NoTree
  /\ unwrapped_lines = <<>>
  /\ next_line = 1
  /\ partially_formatted_lines = <<>>
  /\ formatted_lines_ = <<>>
  /\ format_status = "none"
  /\ output_buffer = <<>>
  /\ reanalysis = NoAnalysis
  /\ formatted_stream = <<>>
  /\ diagnostics = <<>>
  /\ status = "none"
  /\ steps = <<"Analyze", "SelectLines", "Annotate", "DisableRanges">>
  /\ cancel_requested = FALSE
  /\ format_tokens_partition_view = NoView
  /\ LinterIdle
  /\ ToolsIdle

InitMark == AboutToMark(MarkTexts)

NextMark == PreserveSpaces

SpecMark == InitMark /\ [][NextMark]_vars

\* --------------------------------------------------------------------------
\* Format from the marking pass to its return, on the shorter of these
\* texts
\* --------------------------------------------------------------------------
InitMarkedSearch == AboutToMark({t \in MarkTexts : Len(t) <= MaxTextLen})

NextMarkedSearch ==
  \/ PreserveSpaces
  \/ Unwrap
  \/ Diagnostics
  \/ Reshape
  \/ Worklist
  \/ SearchLine
  \/ FormatReturn

SpecMarkedSearch == InitMarkedSearch /\ [][NextMarkedSearch]_vars

\* --------------------------------------------------------------------------
\* The sources of the disabled ranges: texts with lines and directives,
\* every selection of lines, port lists formatted or not; from the entry
\* of FormatVerilog to the marking of the disabled tokens
\* --------------------------------------------------------------------------
\* Largest line number a selection may name.
MaxLineNumber == 2

RangeChars == {"a", "\n", "<", ">"}

\* One byte more than elsewhere: a directive line and a port list of two
\* bytes behind it.
RangeTexts == UNION {[1..k -> RangeChars] : k \in 0..(MaxTextLen + 1)}

InitRanges ==
  /\ text \in RangeTexts
  /\ lines \in SUBSET (1..MaxLineNumber)
  /\ control \in {c \in DriverControls : ~c.any_stop /\ c.max_search_states = MaxSearchStates}
  /\ style \in [format_module_port_declarations : BOOLEAN]
  /\ Entry

NextRanges == Analyze \/ SelectLines \/ Annotate \/ DisableRanges \/ PreserveSpaces

SpecRanges == InitRanges /\ [][NextRanges]_vars

\* --------------------------------------------------------------------------
\* Format and Emit under every set of disabled bytes: texts of at least two
\* tokens, comments included, from the marking of the disabled tokens on
\* --------------------------------------------------------------------------
EmitChars == Letter \cup Space \cup {"/"}

EmitTexts ==
  {t \in UNION {[1..k -> EmitChars] : k \in 0..MaxTextLen} : Len(Lex(t)) >= 2}

\* Annotations that ask for one space before every later token and leave
\* the break open or force it.
SpacedAnnotations(ft) ==
  {a \in Annotations(ft) :
     \A i \in 2..Len(ft) : /\ a[i].spaces_required = 1
                            /\ a[i].break_decision \in {"Undecided", "MustWrap"}}

InitEmit ==
  /\ text \in EmitTexts
  /\ lines = {}
  /\ control \in {c \in DriverControls : ~c.any_stop /\ c.max_search_states = MaxSearchStates}
  /\ style = [format_module_port_declarations |-> TRUE]
  /\ pc = "PreserveSpaces"
  /\ analysis = [lex_ok |-> TRUE, parse_ok |-> TRUE, token_errors |-> 0,
                 tokens |-> Lex(text), ports |-> <<>>]
  /\ disabled_ranges_ \in (SUBSET (0..(Len(text) - 1))) \ {{}}
  /\ \E a \in SpacedAnnotations(PreFormatTokens(Lex(text))) :
       ftokens = Annotated(PreFormatTokens(Lex(text)), a)
  /\ partitions = NoTree
  /\ unwrapped_lines = <<>>
  /\ next_line = 1
  /\ partially_formatted_lines = <<>>
  /\ formatted_lines_ = <<>>
  /\ format_status = "none"
  /\ output_buffer = <<>>
  /\ reanalysis = NoAnalysis
  /\ formatted_stream = <<>>
  /\ diagnostics = <<>>
  /\ status = "none"
  /\ steps = <<"Analyze", "SelectLines", "Annotate", "DisableRanges">>
  /\ cancel_requested = FALSE
  /\ format_tokens_partition_view = NoView
  /\ LinterIdle
  /\ ToolsIdle

NextEmit ==
  \/ PreserveSpaces
  \/ Unwrap
  \/ Diagnostics
  \/ Reshape
  \/ Worklist
  \/ SearchLine
  \/ FormatReturn
  \/ AfterFormat
  \/ EmitBuffer

SpecEmit == InitEmit /\ [][NextEmit]_vars

\* --------------------------------------------------------------------------
\* The driver under every execution control: each diagnostic on or off,
\* with and without a stream of the caller's, over the one-line texts
\* --------------------------------------------------------------------------
InitDiagnostics ==
  /\ text \in OneLineTexts
  /\ lines = {}
  /\ control \in {c \in ExecutionControls : c.max_search_states = MaxSearchStates}
  /\ style = [format_module_port_declarations |-> TRUE]
  /\ Entry

SpecDiagnostics == InitDiagnostics /\ [][Next]_vars

\* --------------------------------------------------------------------------
\* The disable-statement lint rule (DisableForkNoLabelsRule), run over the
\* nodes of one root-to-statement path of a syntax tree
\* --------------------------------------------------------------------------
\* Most nodes between the root and the statement.
MaxContextDepth == 3

Labels == {"a", "b"}

\* A node of the path: its tag and, for a kSeqBlock, the label of its kBegin
\* child, for a kDisableStatement the label it names ("" when there is
\* none, as in "disable fork;").
CstNode(tag, label) == [tag |-> tag, label |-> label]

ContextNodes ==
  {CstNode(t, "") : t \in {"kInitialStatement", "kBlockItemStatementList", "kParBlock"}}
    \cup {CstNode("kSeqBlock", l) : l \in Labels \cup {""}}

Statements ==
  {CstNode("kNullStatement", "")}
    \cup {CstNode("kDisableStatement", l) : l \in Labels \cup {""}}

\* The paths: the module at the root, some nesting, a statement.
CstPaths ==
  {<<CstNode("kModuleDeclaration", "")>> \o mid \o <<stmt>> :
     mid \in UNION {[1..k -> ContextNodes] : k \in 0..MaxContextDepth},
     stmt \in Statements}

\* NodekDisableStatement(DisableStatementHasLabel()).
DisableMatcher(symbol) == symbol.tag = "kDisableStatement" /\ symbol.label # ""

\* The kBegin children of a node, by label.
BeginChildren(n) == IF n.tag = "kSeqBlock" THEN <<n.label>> ELSE <<>>

\* A faulty test that never takes the parent for a procedural statement.
IsProcedural_Never(tag) == FALSE

\* Lines 198-200.
IsProcedural(tag) ==
  tag \in {"kInitialStatement", "kFinalStatement", "kAlwaysStatement"}

\* Lines 186-209: the loop over the children of a kSeqBlock; "return" when
\* a begin label equals the disabled one, "next" when the loop ends or
\* breaks.
RECURSIVE ScanBegins(_, _, _)
ScanBegins(begins, parent, disableLabel) ==
  IF begins = <<>> THEN "next"
  ELSE IF Head(begins) = "" THEN ScanBegins(Tail(begins), parent, disableLabel)
  ELSE IF IsProcedural(parent.tag) THEN "next"
  ELSE IF Head(begins) = disableLabel THEN "return"
  ELSE ScanBegins(Tail(begins), parent, disableLabel)

\* Lines 181-211: the loop over the ancestors, innermost first, the
\* outermost left out; TRUE when the handler returns from inside it.
RECURSIVE ScanContext(_, _, _)
ScanContext(context, disableLabel, i) ==
  IF ~(i < Len(context) - 1) THEN FALSE
  ELSE LET n == context[Len(context) - i]
           parent == context[Len(context) - i - 1]
       IN  IF /\ n.tag = "kSeqBlock"
              /\ ScanBegins(BeginChildren(n), parent, disableLabel) = "return"
             THEN TRUE
             ELSE ScanContext(context, disableLabel, i + 1)

\* Lines 175-212: whether HandleSymbol inserts a violation for the symbol.
InsertsViolation(symbol, context) ==
  /\ DisableMatcher(symbol)
  /\ symbol.label # ""
  /\ ~ScanContext(context, symbol.label, 0)

\* Lines 172-214, called on the next node of the traversal with the nodes
\* above it as context.
HandleSymbol ==
  /\ cst_pos <= Len(cst_path)
  /\ violations_' =
       IF InsertsViolation(cst_path[cst_pos], SubSeq(cst_path, 1, cst_pos - 1))
         THEN violations_ \cup {cst_pos}
         ELSE violations_
  /\ cst_pos' = cst_pos + 1
  /\ UNCHANGED <<cst_path, formatter_vars, tool_vars>>

InitLint ==
  /\ text = <<>>
  /\ lines = {}
  /\ control \in {c \in DriverControls : ~c.any_stop /\ c.max_search_states = MaxSearchStates}
  /\ style = [format_module_port_declarations |-> TRUE]
  /\ pc = "Analyze"
  /\ analysis = NoAnalysis
  /\ disabled_ranges_ = {}
  /\ ftokens = <<>>
  /\ partitions = NoTree
  /\ unwrapped_lines = <<>>
  /\ next_line = 1
  /\ partially_formatted_lines = <<>>
  /\ formatted_lines_ = <<>>
  /\ format_status = "none"
  /\ output_buffer = <<>>
  /\ reanalysis = NoAnalysis
  /\ formatted_stream = <<>>
  /\ diagnostics = <<>>
  /\ status = "none"
  /\ steps = <<>>
  /\ cancel_requested = FALSE
  /\ format_tokens_partition_view = NoView
  /\ cst_path \in CstPaths
  /\ cst_pos = 1
  /\ violations_ = {}
  /\ ToolsIdle

NextLint == HandleSymbol

SpecLint == InitLint /\ [][NextLint]_vars

\* --------------------------------------------------------------------------
\* The tree printer's process (specification SpecPrint)
\* --------------------------------------------------------------------------
\* No format and no lint run under way.
FormatterIdle ==
  /\ text = <<>>
  /\ lines = {}
  /\ control \in {c \in DriverControls : ~c.any_stop /\ c.max_search_states = MaxSearchStates}
  /\ style = [format_module_port_declarations |-> TRUE]
  /\ Entry

\* PrettyPrintVerilogTree(root, base, stream): the printer starts at the
\* static json, which keeps what earlier calls left in it; the file is
\* rewritten with its dump.
PrettyPrintVerilogTree ==
  /\ Len(printed_roots) < MaxPrints
  /\ \E r \in PrintRoots :
       /\ printed_roots' = Append(printed_roots, r)
       /\ cst' = Visit(r, cst)
       /\ stream' = stream \o StreamLines(r, 0)
  /\ verible_json' = Dump(cst')
  /\ UNCHANGED <<formatter_vars, linter_vars, detector_vars, optimizer_vars>>

InitPrint == FormatterIdle

NextPrint == PrettyPrintVerilogTree

SpecPrint == InitPrint /\ [][NextPrint]_vars

\* --------------------------------------------------------------------------
\* The detector's run (specification SpecDetect)
\* --------------------------------------------------------------------------
\* AnalyzeOneFile on a file that has a syntax tree: the status follows the
\* lexer and the parser (lines 139-163), the visitor collects the excluded
\* ranges (281-282), and the ranges between them are printed (285-310).
AnalyzeOneFile ==
  /\ \E n \in 1..MaxLinesOfCode, syntax_ok \in BOOLEAN :
       /\ lines_of_code' = n
       /\ exit_status' = IF syntax_ok THEN 0 ELSE 1
       /\ module_items' \in ModuleItemLists(n)
  /\ visitor_ranges_' = VisitModuleItemList(module_items')
  /\ reversed_ranges' = ReversedRanges(visitor_ranges_', lines_of_code')
  /\ cout_line' \in PrintedLines(reversed_ranges')
  /\ UNCHANGED <<formatter_vars, linter_vars, printer_vars, optimizer_vars>>

InitDetect == FormatterIdle

NextDetect == AnalyzeOneFile

SpecDetect == InitDetect /\ [][NextDetect]_vars

\* --------------------------------------------------------------------------
\* The layout optimizer's run (specification SpecOptimize)
\* --------------------------------------------------------------------------
\* OptimizeTokenPartitionTree(node, style), called once: a knot set for
\* every leaf of a copy of the tree; the tree itself is left as it was.
OptimizeTokenPartitionTree ==
  /\ knot_sets = <<>>
  /\ optimized_tree' \in LayoutPartitions
  /\ optimizer_style' \in BasicFormatStyles
  /\ knot_sets' = TraverseTree(optimized_tree', optimizer_style')
  /\ UNCHANGED <<formatter_vars, linter_vars, printer_vars, detector_vars>>

InitOptimize == FormatterIdle

NextOptimize == OptimizeTokenPartitionTree

SpecOptimize == InitOptimize /\ [][NextOptimize]_vars

\* --------------------------------------------------------------------------
\* Properties of FormatVerilog (specification Spec)
\* --------------------------------------------------------------------------
Range(seq) == {seq[i] : i \in DOMAIN seq}

Returned == pc = "Done"

\* C1: what FormatVerilog writes is exactly the emitted text the verifier
\* accepted, and its filtered token stream equals the input's, kind by kind
\* and text by text; a call that returns DataLoss has written nothing.
C1_TokensPreserved ==
  /\ status = "kDataLoss" => formatted_stream = <<>>
  /\ \A k \in DOMAIN formatted_stream :
       /\ formatted_stream[k] = Bytes(output_buffer)
       /\ VerifyFormatting(text, formatted_stream[k], reanalysis.lex_ok,
                           reanalysis.parse_ok, reanalysis.token_errors) = "kOk"
       /\ LexOk(text) /\ LexOk(formatted_stream[k])
       /\ FilteredTokens(formatted_stream[k]) = FilteredTokens(text)

\* A call that wrote a text which differs from its two-token input.
C1_Witness ==
  /\ Returned /\ status = "kOk"
  /\ formatted_stream # <<>>
  /\ formatted_stream[1] # text
  /\ Len(Lex(text)) = 2

\* C2: no byte reaches the stream on a path that returns InvalidArgument,
\* Cancelled or DataLoss; the stream is written at most once, with the
\* complete buffer, in the step that returns OK or ResourceExhausted.
C2_WriteOnlyOnSuccess ==
  /\ (Returned /\ status \in {"kInvalidArgument", "kCancelled", "kDataLoss"})
       => formatted_stream = <<>>
  /\ formatted_stream # <<>> =>
       /\ Returned
       /\ status \in {"kOk", "kResourceExhausted"}
       /\ formatted_stream = <<Bytes(output_buffer)>>
  /\ (Returned /\ status \in {"kOk", "kResourceExhausted"})
       => Len(formatted_stream) = 1

\* A call that emitted a text, rejected it and returned DataLoss.
C2_Witness ==
  /\ Returned /\ status = "kDataLoss"
  /\ output_buffer # <<>>
  /\ "Verify" \in Range(steps)

\* C3 as stated: whenever the search of some line did not complete, the
\* text is written and ResourceExhausted returned.
C3_AlwaysWritten ==
  (Returned /\ format_status = "kResourceExhausted")
    => (status = "kResourceExhausted" /\ formatted_stream # <<>>)

\* C3: when the search of some line did not complete, the best-effort text
\* is still emitted and verified; if it passes it is written and
\* ResourceExhausted returned, otherwise DataLoss is returned and nothing
\* is written.
C3_WrittenIfVerified ==
  /\ format_status = "kResourceExhausted" /\ pc # "FormatReturned"
       => "Emit" \in Range(steps) \/ pc = "Emit"
  /\ (Returned /\ format_status = "kResourceExhausted") =>
       /\ "Verify" \in Range(steps)
       /\ IF VerifyFormatting(text, Bytes(output_buffer), reanalysis.lex_ok,
                              reanalysis.parse_ok, reanalysis.token_errors) = "kOk"
            THEN /\ status = "kResourceExhausted"
                 /\ formatted_stream = <<Bytes(output_buffer)>>
            ELSE /\ status = "kDataLoss"
                 /\ formatted_stream = <<>>

\* A call whose search ran out of states and whose text was written.
C3_Witness ==
  /\ Returned /\ status = "kResourceExhausted"
  /\ formatted_stream = <<Bytes(output_buffer)>>
  /\ output_buffer # <<>>

\* C4: when lexing or parsing the input fails the call returns
\* InvalidArgument with the analysis as its only step: no Formatter exists,
\* nothing is selected, annotated, marked, partitioned, searched, emitted,
\* verified or written.
C4_InvalidArgumentFirst ==
  (pc # "Analyze" /\ (~analysis.lex_ok \/ ~analysis.parse_ok)) =>
    /\ Returned /\ status = "kInvalidArgument"
    /\ steps = <<"Analyze">>
    /\ disabled_ranges_ = {} /\ ftokens = <<>> /\ partitions = NoTree
    /\ unwrapped_lines = <<>> /\ formatted_lines_ = <<>>
    /\ format_status = "none" /\ output_buffer = <<>>
    /\ formatted_stream = <<>> /\ diagnostics = <<>>

\* A call refused for a parse failure of a text that lexes.
C4_Witness ==
  /\ Returned /\ status = "kInvalidArgument"
  /\ analysis.lex_ok /\ ~analysis.parse_ok
  /\ Len(analysis.tokens) > 0

\* C5: in a diagnostic mode Format returns right after the diagnostics
\* (no reshape, worklist or search) and FormatVerilog returns Cancelled
\* without emitting, verifying or writing.
C5_DiagnosticStop ==
  AnyStop(control) =>
    /\ Range(steps) \cap {"Reshape", "Worklist", "SearchLine", "FormatReturn",
                          "Emit", "Verify", "Commit"} = {}
    /\ formatted_lines_ = <<>> /\ output_buffer = <<>> /\ formatted_stream = <<>>
    /\ pc = "FormatReturned" =>
         /\ steps[Len(steps)] = "Diagnostics"
         /\ diagnostics = DiagnosticsPrinted(control)
         /\ format_status = "kOk"
    /\ (Returned /\ analysis.lex_ok /\ analysis.parse_ok) =>
         /\ status = "kCancelled"
         /\ steps[Len(steps)] = "AfterFormat"
         /\ steps[Len(steps) - 1] = "Diagnostics"

\* A cancelled call that printed its diagnostics over a two-token input.
C5_Witness ==
  /\ Returned /\ status = "kCancelled"
  /\ diagnostics # <<>>
  /\ Len(analysis.tokens) = 2

\* C6 as stated: any failure to lex or parse the formatted text, and any
\* difference between the token streams, makes the call return DataLoss.
C6_AnyFailureIsDataLoss ==
  (/\ Returned
   /\ "Verify" \in Range(steps)
   /\ \/ ~reanalysis.lex_ok
      \/ ~reanalysis.parse_ok
      \/ FormatEquivalent(text, Bytes(output_buffer)) # "kEquivalent")
    => status = "kDataLoss"

\* C10, its first half: the text an OK run wrote without disabled ranges is
\* accepted again.  A second run begins by analysing that text, which the
\* verification of the first run has already done: the second run returns
\* InvalidArgument unless that re-analysis succeeded.
C10_OutputAcceptedAgain ==
  (Returned /\ status = "kOk" /\ disabled_ranges_ = {} /\ formatted_stream # <<>>)
    => (reanalysis.lex_ok /\ reanalysis.parse_ok)

TokenRange(uwline) == [k \in 1..Max(uwline.hi - uwline.lo, 0) |-> uwline.lo + k]

\* C9: the token ranges of the worklist, concatenated in worklist order,
\* are the root's range: every token of the stream once, in stream order.
C9_WorklistCoverage ==
  pc = "Search" =>
    Concat([k \in DOMAIN unwrapped_lines |-> TokenRange(unwrapped_lines[k])])
      = [i \in 1..Len(ftokens) |-> i]

\* A worklist of two lines, one token each.
C9_Witness ==
  /\ pc = "Search"
  /\ Len(ftokens) = 2
  /\ Len(unwrapped_lines) = 2
  /\ \A k \in DOMAIN unwrapped_lines : ~IsEmpty(unwrapped_lines[k])
  /\ steps[Len(steps)] = "Worklist"

\* --------------------------------------------------------------------------
\* Disabled bytes in the emitted text (specification SpecEmit)
\* --------------------------------------------------------------------------
Emitted == pc = "Verify"

\* Where the copy of input byte o sits in the output.
OutIndex(out, o) == CHOOSE k \in DOMAIN out : out[k].o = o

\* Every byte of every token is copied, and the copied bytes keep the
\* order of the input.
TokensCopied(out, t, toks) ==
  /\ \A i \in DOMAIN toks : \A o \in toks[i].left..(toks[i].right - 1) :
       \E k \in DOMAIN out : out[k] = [c |-> t[o + 1], o |-> o]
  /\ \A j, k \in DOMAIN out :
       (j < k /\ out[j].o >= 0 /\ out[k].o >= 0) => out[j].o < out[k].o

\* Gap i of n tokens is the input stretch before token i (after the last
\* token for i = n + 1).
GapStart(toks, i) == IF i = 1 THEN 0 ELSE toks[i - 1].right
GapEnd(t, toks, i) == IF i = Len(toks) + 1 THEN Len(t) ELSE toks[i].left

\* What the output holds between the tokens around gap i.
OutGap(out, toks, i) ==
  LET from == IF i = 1 THEN 0 ELSE OutIndex(out, toks[i - 1].right - 1)
      to == IF i = Len(toks) + 1 THEN Len(out) + 1 ELSE OutIndex(out, toks[i].left)
  IN  Bytes(SubSeq(out, from + 1, to - 1))

\* The disabled bytes of the input stretch [lo, hi), in order.
RECURSIVE DisabledBytes(_, _, _, _)
DisabledBytes(t, D, lo, hi) ==
  IF lo >= hi THEN <<>>
  ELSE (IF lo \in D THEN <<t[lo + 1]>> ELSE <<>>) \o DisabledBytes(t, D, lo + 1, hi)

RECURSIVE IsSubsequence(_, _)
IsSubsequence(a, b) ==
  IF a = <<>> THEN TRUE
  ELSE IF b = <<>> THEN FALSE
  ELSE IF Head(a) = Head(b) THEN IsSubsequence(Tail(a), Tail(b))
  ELSE IsSubsequence(a, Tail(b))

\* The disabled bytes of gap i appear, in order, between the same tokens.
GapKept(out, t, toks, D, i) ==
  IsSubsequence(DisabledBytes(t, D, GapStart(toks, i), GapEnd(t, toks, i)),
                OutGap(out, toks, i))

\* Token i follows another token on its formatted line.
InsideLine(flines, toks, i) ==
  \E k \in DOMAIN flines : \E j \in 2..Len(flines[k].tokens) :
    flines[k].tokens[j].left = toks[i].left

\* Token i lies wholly inside one of the ranges of D.
Enclosed(toks, D, i) ==
  \E r \in Range(Ranges(D)) : r[1] <= toks[i].left /\ toks[i].right <= r[2]

SkipsCommentNewline(toks, D, i) ==
  /\ i > 1
  /\ toks[i - 1].token_enum = "TK_EOL_COMMENT"
  /\ \E r \in Range(Ranges(D)) :
       /\ r[1] <= toks[i].left /\ toks[i].right <= r[2]
       /\ toks[i - 1].left < r[1]

C11_NeverProcessWide ==
  \A k \in DOMAIN diagnostics : diagnostics[k][1] = "caller"

\* C11: every diagnostic (partition tree, largest partitions, equally
\* optimal wrappings) goes to the caller's stream when the control holds
\* one, and to std::cout when its stream field is null.
C11_CallerStreamOrStdout ==
  \A k \in DOMAIN diagnostics :
    /\ diagnostics[k][2] \in {"Full token partition tree", "largest token partitions",
                              "equally optimal wrappings"}
    /\ diagnostics[k][1] = IF control.stream = "nullptr" THEN "std::cout" ELSE "caller"

\* A run without a stream of the caller's that printed the partition tree
\* and the largest partitions, both to std::cout.
C11_Witness ==
  /\ control.stream = "nullptr"
  /\ Len(diagnostics) >= 2
  /\ diagnostics[1] = <<"std::cout", "Full token partition tree">>
  /\ diagnostics[2] = <<"std::cout", "largest token partitions">>

\* --------------------------------------------------------------------------
\* The disable-statement rule (specification SpecLint)
\* --------------------------------------------------------------------------
Linted == cst_pos > Len(cst_path)

\* The statement at the end of the path.
Statement == cst_path[Len(cst_path)]

NamesEnclosingBlock(path, label) ==
  \E j \in 2..(Len(path) - 1) :
    /\ path[j].tag = "kSeqBlock"
    /\ path[j].label = label
    /\ path[j - 1].tag \notin {"kInitialStatement", "kFinalStatement",
                               "kAlwaysStatement"}

Marked == pc = "Search" /\ steps[Len(steps)] = "Worklist"

\* The nodes of a view.
RECURSIVE ViewNodes(_)
ViewNodes(node) ==
  {node} \cup UNION {ViewNodes(node.children[i]) : i \in DOMAIN node.children}

SomeChildExpanded(node) == \E i \in DOMAIN node.children : node.children[i].expanded

\* C13: after the pass every node with an expanded child is expanded.
C13_ExpandedChildExpandsParent ==
  Marked =>
    \A n \in ViewNodes(format_tokens_partition_view) :
      SomeChildExpanded(n) => n.expanded

\* A root whose own line fits, expanded because its child is.
C13_Witness ==
  /\ Marked
  /\ format_tokens_partition_view.uwline.partition_policy = "kFitOnLineElseExpand"
  /\ FitsOnLine(format_tokens_partition_view.uwline, ftokens)
  /\ SomeChildExpanded(format_tokens_partition_view)
  /\ format_tokens_partition_view.expanded

\* C14: a leaf is unexpanded; a node of policy kFitOnLineElseExpand or
\* kAppendFittingSubPartitions whose children are all unexpanded is
\* expanded exactly when its line does not fit.
C14_LeafFoldedFitDecides ==
  Marked =>
    \A n \in ViewNodes(format_tokens_partition_view) :
      /\ n.children = <<>> => ~n.expanded
      /\ ( /\ n.children # <<>>
           /\ ~SomeChildExpanded(n)
           /\ n.uwline.partition_policy
                \in {"kFitOnLineElseExpand", "kAppendFittingSubPartitions"} )
         => (n.expanded <=> ~FitsOnLine(n.uwline, ftokens))

\* A root of two leaves that fits and is left unexpanded.
C14_Witness ==
  /\ Marked
  /\ Len(format_tokens_partition_view.children) = 2
  /\ format_tokens_partition_view.uwline.partition_policy = "kFitOnLineElseExpand"
  /\ ~IsEmpty(format_tokens_partition_view.uwline)
  /\ FitsOnLine(format_tokens_partition_view.uwline, ftokens)
  /\ ~format_tokens_partition_view.expanded
  /\ unwrapped_lines = <<format_tokens_partition_view.uwline>>

\* C15 as stated: a kAlwaysExpand node whose children are all unexpanded
\* is expanded exactly when it has two children or more; the root with one
\* child is the only line of the worklist.
C15_OneChildFolded ==
  Marked =>
    \A n \in ViewNodes(format_tokens_partition_view) :
      ( /\ n.children # <<>>
        /\ ~SomeChildExpanded(n)
        /\ n.uwline.partition_policy = "kAlwaysExpand" )
      => /\ n.expanded <=> Len(n.children) >= 2
         /\ (Len(n.children) = 1 /\ n = format_tokens_partition_view /\ ~IsEmpty(n.uwline))
              => unwrapped_lines = <<n.uwline>>

\* The frontier the view yields.
Frontier == ViewSequence(format_tokens_partition_view)

\* C16: the worklist is the frontier without its longest suffix of empty
\* lines: a prefix of the frontier, all that was left out is empty, and
\* the last line kept is not.
C16_TrailingEmptyRemoved ==
  Marked =>
    /\ Len(unwrapped_lines) <= Len(Frontier)
    /\ unwrapped_lines = SubSeq(Frontier, 1, Len(unwrapped_lines))
    /\ \A k \in (Len(unwrapped_lines) + 1)..Len(Frontier) : IsEmpty(Frontier[k])
    /\ unwrapped_lines # <<>> => ~IsEmpty(unwrapped_lines[Len(unwrapped_lines)])

\* A frontier of two empty lines, both dropped.
C16_Witness ==
  /\ Marked
  /\ Len(Frontier) = 2
  /\ unwrapped_lines = <<>>

\* --------------------------------------------------------------------------
\* The search loop of Format (specification SpecSearch)
\* --------------------------------------------------------------------------
\* While the loop runs, formatted_lines_ holds the excerpt of every line
\* searched so far, in worklist order.
OneExcerptPerLine ==
  pc = "Search" =>
    /\ Len(formatted_lines_) = next_line - 1
    /\ Len(formatted_lines_) <= Len(unwrapped_lines)
    /\ \A k \in DOMAIN formatted_lines_ :
         formatted_lines_[k] = SearchLineWraps(unwrapped_lines[k], ftokens,
                                               control.max_search_states)

\* Format returns from the loop with an excerpt for every line, and with
\* ResourceExhausted exactly when one of them is incomplete.
ReturnsAfterEveryLine ==
  (pc = "Search" /\ pc' = "FormatReturned") =>
    /\ Len(formatted_lines_) = Len(unwrapped_lines)
    /\ formatted_lines_' = formatted_lines_
    /\ format_status' =
         IF \E k \in DOMAIN formatted_lines_ : ~formatted_lines_[k].completed_formatting
           THEN "kResourceExhausted" ELSE "kOk"

\* C17: Format searches every line of the worklist, whether or not an
\* earlier search completed, appends the solution of each to
\* formatted_lines_ in worklist order, and returns ResourceExhausted if and
\* only if one of these excerpts is incomplete, OK otherwise.
C17_EveryLineSearched == []OneExcerptPerLine /\ [][ReturnsAfterEveryLine]_vars

\* Format has returned ResourceExhausted with two excerpts, the first
\* incomplete and the one searched after it complete.
C17_Witness ==
  /\ pc = "FormatReturned"
  /\ format_status = "kResourceExhausted"
  /\ Len(formatted_lines_) = 2
  /\ ~formatted_lines_[1].completed_formatting
  /\ formatted_lines_[2].completed_formatting

\* --------------------------------------------------------------------------
\* The marking of the disabled tokens (specification SpecEmit)
\* --------------------------------------------------------------------------
\* Token i starts inside one of the ranges of D.
StartsInRange(toks, D, i) ==
  \E r \in Range(Ranges(D)) : r[1] <= toks[i].left /\ toks[i].left < r[2]

\* The step that marks the disabled tokens.
Marking == pc = "PreserveSpaces" /\ pc' = "Unwrap"

\* C18 as stated: the marking sets Preserve on exactly the tokens that
\* start inside a disabled range and leaves the decision of the others.
C18_MarkedByStart ==
  [][Marking =>
       \A i \in DOMAIN ftokens :
         ftokens'[i].before.break_decision =
           IF StartsInRange(ftokens, disabled_ranges_, i)
             THEN "Preserve" ELSE ftokens[i].before.break_decision]_vars

\* C18: the marking sets Preserve on exactly the tokens that lie wholly
\* inside a disabled range (range.lo <= lo and hi <= range.hi); every other
\* token, one that starts inside a range and ends behind it included,
\* keeps the decision the annotator gave it.
C18_MarkedWhenEnclosed ==
  [][Marking =>
       /\ DOMAIN ftokens' = DOMAIN ftokens
       /\ \A i \in DOMAIN ftokens :
            ftokens'[i].before.break_decision =
              IF Enclosed(ftokens, disabled_ranges_, i)
                THEN "Preserve" ELSE ftokens[i].before.break_decision]_vars

\* Just marked: one token inside a range and set to Preserve, another that
\* starts inside a range, ends behind it and is not.
C18_Witness ==
  /\ pc = "Unwrap"
  /\ steps[Len(steps)] = "PreserveSpaces"
  /\ \E i \in DOMAIN ftokens :
       /\ Enclosed(ftokens, disabled_ranges_, i)
       /\ ftokens[i].before.break_decision = "Preserve"
  /\ \E i \in DOMAIN ftokens :
       /\ StartsInRange(ftokens, disabled_ranges_, i)
       /\ ~Enclosed(ftokens, disabled_ranges_, i)
       /\ ftokens[i].before.break_decision # "Preserve"

\* --------------------------------------------------------------------------
\* The sources of the disabled ranges (specification SpecRanges)
\* --------------------------------------------------------------------------
\* The step of Format that adds the directive ranges and the port lists.
AddsRanges == pc = "DisableRanges" /\ pc' = "PreserveSpaces"

\* What that step adds beyond the ranges it found and the directives.
AddedForPorts ==
  disabled_ranges_' \ (disabled_ranges_ \cup DisableFormattingRanges(text, analysis.tokens))

\* C19 as stated: with format_module_port_declarations false every port
\* list disables the bytes from the first of its first token to the last
\* of its last token.
C19_FromFirstByte ==
  [][(AddsRanges /\ ~style.format_module_port_declarations) =>
       \A k \in DOMAIN analysis.ports :
         \A o \in analysis.ports[k][1]..(analysis.ports[k][2] - 1) :
           o \in disabled_ranges_']_vars

\* C19: with format_module_port_declarations false every port list
\* disables the bytes behind its first one up to the last of its last
\* token, the interval [first_token.lo + 1, last_token.hi), and nothing
\* else: its first byte is left to the other sources.
C19_FromSecondByte ==
  [][(AddsRanges /\ ~style.format_module_port_declarations) =>
       /\ \A k \in DOMAIN analysis.ports :
            \A o \in (analysis.ports[k][1] + 1)..(analysis.ports[k][2] - 1) :
              o \in disabled_ranges_'
       /\ \A o \in AddedForPorts :
            \E k \in DOMAIN analysis.ports :
              analysis.ports[k][1] + 1 <= o /\ o < analysis.ports[k][2]]_vars

\* Ranges added for a port list of two tokens: its first byte stays
\* enabled, the rest is disabled.
C19_Witness ==
  /\ pc = "PreserveSpaces"
  /\ ~style.format_module_port_declarations
  /\ Len(analysis.ports) = 1
  /\ analysis.ports[1][2] - analysis.ports[1][1] = 3
  /\ analysis.ports[1][1] \notin disabled_ranges_
  /\ \A o \in (analysis.ports[1][1] + 1)..(analysis.ports[1][2] - 1) :
       o \in disabled_ranges_

\* The bytes of the lines that are not selected; none when no line is.
UnselectedLines ==
  IF lines = {} THEN {}
  ELSE {o \in 0..(Len(text) - 1) :
          Cardinality({b \in 0..o : b = 0 \/ text[b] = "\n"}) \notin lines}

\* C20: when the disabled tokens are marked, disabled_ranges_ is the union
\* of the lines that are not selected, the ranges of the comment
\* directives and, with format_module_port_declarations false only, the
\* regions of the port lists.
C20_UnionOfSources ==
  pc = "PreserveSpaces" =>
    disabled_ranges_ =
      (UnselectedLines \cup DisableFormattingRanges(text, analysis.tokens))
        \cup (IF ~style.format_module_port_declarations
                THEN PortRanges(analysis.ports) ELSE {})

\* About to mark: each of the three sources has disabled some byte, the
\* unselected lines one that the later sources have not, the directives
\* and the port list one that the unselected lines have not.
C20_Witness ==
  /\ pc = "PreserveSpaces"
  /\ ~style.format_module_port_declarations
  /\ DisableFormattingRanges(text, analysis.tokens) # {}
  /\ PortRanges(analysis.ports) # {}
  /\ UnselectedLines \ (DisableFormattingRanges(text, analysis.tokens)
                          \cup PortRanges(analysis.ports)) # {}
  /\ DisableFormattingRanges(text, analysis.tokens) \ UnselectedLines # {}
  /\ PortRanges(analysis.ports) \ UnselectedLines # {}

\* --------------------------------------------------------------------------
\* The marking pass (specification SpecMark)
\* --------------------------------------------------------------------------
\* Token i lies wholly inside range r.
Within(toks, r, i) == r[1] <= toks[i].left /\ toks[i].right <= r[2]

\* Token i is the first token that lies inside some range of D.
FirstOfRange(toks, D, i) ==
  \E r \in Range(Ranges(D)) :
    /\ Within(toks, r, i)
    /\ \A j \in 1..(i - 1) : ~Within(toks, r, j)

\* Token i is the first token inside a range of D that begins where a
\* //-comment ends or just behind the newline that ends it.
FirstOfRangeAtComment(toks, D, i) ==
  \E r \in Range(Ranges(D)) :
    /\ Within(toks, r, i)
    /\ \A j \in 1..(i - 1) : ~Within(toks, r, j)
    /\ \E j \in DOMAIN toks :
         /\ toks[j].token_enum = "TK_EOL_COMMENT"
         /\ r[1] \in {toks[j].right, toks[j].right + 1}

AfterMarking == pc \in {"Unwrap", "Diagnostics", "Reshape", "Worklist", "Search"}

\* The marking comes behind the annotation and before the partitioning and
\* every wrap search.
MarkedInBetween ==
  \A k \in DOMAIN steps :
    /\ steps[k] = "PreserveSpaces" =>
         /\ \E j \in 1..(k - 1) : steps[j] = "Annotate"
         /\ \A j \in 1..(k - 1) : steps[j] \notin {"Unwrap", "Worklist", "SearchLine"}
    /\ steps[k] \in {"Unwrap", "Worklist", "SearchLine"} =>
         \E j \in 1..(k - 1) : steps[j] = "PreserveSpaces"

\* From the marking on, every token inside a disabled range carries
\* Preserve.
PreserveInForce ==
  AfterMarking =>
    \A i \in DOMAIN ftokens :
      Enclosed(ftokens, disabled_ranges_, i) => ftokens[i].before.break_decision = "Preserve"

\* The marking overrides whatever the annotator decided for a token inside
\* a disabled range.
MarkingOverrides ==
  Marking =>
    \A i \in DOMAIN ftokens :
      Enclosed(ftokens, disabled_ranges_, i) => ftokens'[i].before.break_decision = "Preserve"

\* C22: the marking runs behind the annotation and before the partitioning
\* and the wrap search, and from then on every token that lies in a
\* disabled range has the break decision Preserve, whatever the annotator
\* gave it.
C22_PreserveWins == [](MarkedInBetween /\ PreserveInForce) /\ [][MarkingOverrides]_vars

\* The search is about to read a token that stands behind a //-comment,
\* where the annotator forces the wrap, and lies in a disabled range: its
\* decision is Preserve.
C22_Witness ==
  /\ pc = "Search"
  /\ \E i \in 2..Len(ftokens) :
       /\ ftokens[i - 1].token_enum = "TK_EOL_COMMENT"
       /\ Enclosed(ftokens, disabled_ranges_, i)
       /\ ftokens[i].before.break_decision = "Preserve"

\* --------------------------------------------------------------------------
\* Emit (specification SpecEmit)
\* --------------------------------------------------------------------------
\* The blanks the formatter itself put right before index k of the output.
RECURSIVE ProducedBlanksBefore(_, _)
ProducedBlanksBefore(out, k) ==
  IF k > 1 /\ out[k - 1].o = -1 /\ out[k - 1].c = " "
    THEN 1 + ProducedBlanksBefore(out, k - 1)
    ELSE 0

\* The offset of the first token of an excerpt.
FrontOffset(line) == line.tokens[1].left

\* C23: in the emitted text the first token of an excerpt stands behind the
\* excerpt's indentation exactly when its offset is in no disabled range;
\* when it is in one, the formatter puts no blank of its own before it.
C23_IndentUnlessDisabled ==
  Emitted =>
    \A k \in DOMAIN formatted_lines_ :
      ProducedBlanksBefore(output_buffer,
                           OutIndex(output_buffer, FrontOffset(formatted_lines_[k])))
        = IF FrontOffset(formatted_lines_[k]) \in disabled_ranges_
            THEN 0 ELSE formatted_lines_[k].indentation_spaces

\* Emitted: two indented excerpts, the first token of one disabled, of the
\* other not.
C23_Witness ==
  /\ Emitted
  /\ Len(formatted_lines_) = 2
  /\ \A k \in 1..2 : formatted_lines_[k].indentation_spaces > 0
  /\ FrontOffset(formatted_lines_[1]) \in disabled_ranges_
  /\ FrontOffset(formatted_lines_[2]) \notin disabled_ranges_

\* The value of Emit's position when it reaches excerpt k, or the end of
\* the excerpts for k = Len(formatted_lines_) + 1.
PositionAt(k) ==
  IF k = 1 THEN 0
  ELSE formatted_lines_[k - 1].tokens[Len(formatted_lines_[k - 1].tokens)].right

\* The offsets of the original bytes in the output, in output order.
CopiedOffsets(out) ==
  LET kept == SelectSeq(out, LAMBDA b : b.o # -1)
  IN  [k \in DOMAIN kept |-> kept[k].o]

\* C24: the position never passes the first token of the next excerpt nor
\* the end of the text, so the gaps and the excerpts follow one another
\* through the text; the original bytes in the output stand in text order,
\* none twice, and no byte of a token is missing.
C24_PositionTilesText ==
  Emitted =>
    /\ \A k \in DOMAIN formatted_lines_ :
         /\ PositionAt(k) <= FrontOffset(formatted_lines_[k])
         /\ FrontOffset(formatted_lines_[k]) < PositionAt(k + 1)
    /\ PositionAt(Len(formatted_lines_) + 1) <= Len(text)
    /\ \A i, j \in DOMAIN CopiedOffsets(output_buffer) :
         i < j => CopiedOffsets(output_buffer)[i] < CopiedOffsets(output_buffer)[j]
    /\ TokensCopied(output_buffer, text, analysis.tokens)

\* Emitted: two excerpts, the gap between them disabled and copied between
\* their tokens.
C24_Witness ==
  /\ Emitted
  /\ Len(formatted_lines_) = 2
  /\ PositionAt(1) = FrontOffset(formatted_lines_[1])
  /\ PositionAt(2) < FrontOffset(formatted_lines_[2])
  /\ PositionAt(2) \in disabled_ranges_
  /\ PositionAt(2) \in Range(CopiedOffsets(output_buffer))
  /\ PositionAt(3) = Len(text)

\* --------------------------------------------------------------------------
\* Excerpts without tokens (specification Spec)
\* --------------------------------------------------------------------------
\* C25: no line of the worklist is empty, every excerpt Emit is given holds
\* a token, and Emit never takes front() or back() of an empty one.
C25_NoEmptyExcerpt ==
  /\ pc # "Undefined"
  /\ pc = "Search" => \A k \in DOMAIN unwrapped_lines : ~IsEmpty(unwrapped_lines[k])
  /\ pc \in {"Search", "FormatReturned", "Emit", "Verify"} =>
       \A k \in DOMAIN formatted_lines_ : formatted_lines_[k].tokens # <<>>

\* The worklist of a tree with an empty partition: the partition is gone,
\* a line is left.
C25_Witness ==
  /\ Marked
  /\ \E n \in ViewNodes(format_tokens_partition_view) : IsEmpty(n.uwline)
  /\ unwrapped_lines # <<>>
  /\ \A k \in DOMAIN unwrapped_lines : ~IsEmpty(unwrapped_lines[k])

\* --------------------------------------------------------------------------
\* The status after an exhausted search (specification Spec)
\* --------------------------------------------------------------------------
\* The verification was the last step of the call: it refused the text.
RefusedByVerification == Returned /\ steps[Len(steps)] = "Verify"

\* C26: a call whose search ran out of states and whose emitted text the
\* verification refused returns DataLoss and has written nothing; a call
\* that returns ResourceExhausted has verified its text and written it.
C26_DataLossOverridesExhausted ==
  /\ (RefusedByVerification /\ format_status = "kResourceExhausted") =>
       /\ status = "kDataLoss"
       /\ formatted_stream = <<>>
  /\ (Returned /\ status = "kResourceExhausted") =>
       /\ format_status = "kResourceExhausted"
       /\ steps[Len(steps)] = "Commit"
       /\ steps[Len(steps) - 1] = "Verify"
       /\ formatted_stream = <<Bytes(output_buffer)>>

\* A call whose search ran out of states and whose text was refused.
C26_Witness ==
  /\ RefusedByVerification
  /\ format_status = "kResourceExhausted"
  /\ status = "kDataLoss"
  /\ output_buffer # <<>>
  /\ formatted_stream = <<>>

\* --------------------------------------------------------------------------
\* The shrinking search of the marking (specification SpecMark)
\* --------------------------------------------------------------------------
\* The marking that searches every range from the first token.
RECURSIVE PreserveFromFirstToken(_, _)
PreserveFromFirstToken(ft, ranges) ==
  IF ranges = <<>> THEN ft
  ELSE PreserveFromFirstToken(PreserveOneRange(ft, 1, Head(ranges)), Tail(ranges))

PreservedTokens(ft) == {i \in DOMAIN ft : ft[i].before.break_decision = "Preserve"}

\* The disabled ranges are sorted and disjoint, the tokens increasing and
\* disjoint.
SortedDisjoint ==
  /\ \A k \in 2..Len(Ranges(disabled_ranges_)) :
       Ranges(disabled_ranges_)[k - 1][2] <= Ranges(disabled_ranges_)[k][1]
  /\ \A i \in 2..Len(ftokens) : ftokens[i - 1].right <= ftokens[i].left

\* C27: the marking, which restarts each search at the end of the previous
\* range's token span, marks the tokens that a search of every range from
\* the first token marks, and leaves them with the same fields.
C27_RestartEqualsFullSearch ==
  [][(Marking /\ SortedDisjoint) =>
       /\ PreservedTokens(ftokens') =
            PreservedTokens(PreserveFromFirstToken(ftokens, Ranges(disabled_ranges_)))
       /\ ftokens' = PreserveFromFirstToken(ftokens, Ranges(disabled_ranges_))]_vars

\* A marking of two ranges, the second searched from a later token than the
\* first, each of which marked a token.
C27_Witness ==
  /\ AfterMarking
  /\ Len(Ranges(disabled_ranges_)) >= 2
  /\ \E i, j \in PreservedTokens(ftokens) :
       /\ i < j
       /\ ftokens[i].right <= Ranges(disabled_ranges_)[1][2]
       /\ ftokens[j].left >= Ranges(disabled_ranges_)[2][1]
       /\ \E k \in DOMAIN ftokens : i < k /\ k < j /\ k \notin PreservedTokens(ftokens)

\* --------------------------------------------------------------------------
\* The tree printer's document (specification SpecPrint)
\* --------------------------------------------------------------------------
LastRoot == printed_roots[Len(printed_roots)]

\* C28: the document written for a tree is the one a process that printed
\* nothing before writes for it, whatever was printed earlier.
C28_JsonOfTreeOnly ==
  printed_roots # <<>> => verible_json = Dump(Visit(LastRoot, NullJson))

\* --------------------------------------------------------------------------
\* The detector's ranges (specification SpecDetect)
\* --------------------------------------------------------------------------
Analyzed == lines_of_code > 0

\* The excluded ranges come in increasing order, apart from each other and
\* within the file.
ExcludedIncreasing ==
  /\ \A k \in DOMAIN visitor_ranges_ :
       /\ 1 <= visitor_ranges_[k][1]
       /\ visitor_ranges_[k][1] <= visitor_ranges_[k][2]
       /\ visitor_ranges_[k][2] <= lines_of_code
  /\ \A k \in 2..Len(visitor_ranges_) :
       visitor_ranges_[k - 1][2] < visitor_ranges_[k][1]

ExcludedLines ==
  UNION {visitor_ranges_[k][1]..visitor_ranges_[k][2] : k \in DOMAIN visitor_ranges_}

\* The maximal runs of the lines that no excluded range covers, in order.
RECURSIVE RunsOf(_)
RunsOf(intervals) ==
  IF intervals = <<>> THEN <<>>
  ELSE <<<<Head(intervals)[1], Head(intervals)[2] - 1>>>> \o RunsOf(Tail(intervals))

MaximalRuns == RunsOf(Ranges((1..lines_of_code) \ ExcludedLines))

\* C29: for excluded ranges in increasing order within the file, the
\* ranges printed are the maximal runs of the lines not excluded.
C29_PrintedRangesAreMaximalRuns ==
  (Analyzed /\ ExcludedIncreasing) =>
    /\ reversed_ranges = MaximalRuns
    /\ cout_line = WithoutLastChar(RangeList(MaximalRuns))

\* --------------------------------------------------------------------------
\* The knot sets of the leaves (specification SpecOptimize)
\* --------------------------------------------------------------------------
Optimized == knot_sets # <<>>

\* The leaves of a tree, left to right.
RECURSIVE LeavesOf(_)
RECURSIVE LeavesOfAll(_)
LeavesOfAll(children) ==
  IF children = <<>> THEN <<>>
  ELSE LeavesOf(Head(children)) \o LeavesOfAll(Tail(children))

LeavesOf(n) == IF n.children = <<>> THEN <<n>> ELSE LeavesOfAll(n.children)

\* The start columns the cost is read at.
StartColumns == 0..(ColumnLimit + MaxLeafTokens * (MaxTokenLength + 1))

\* A knot set read as a piecewise-linear cost: the last knot at or before
\* column c gives intercept + gradient * (c - column).
CostAt(knot_set, c) ==
  LET at == {k \in DOMAIN knot_set : knot_set[k].column <= c}
      last == CHOOSE k \in at : \A j \in at : j <= k
  IN  knot_set[last].intercept + knot_set[last].gradient * (c - knot_set[last].column)

OverLimit(c, s) ==
  IF c + s - optimizer_style.column_limit > 0
    THEN c + s - optimizer_style.column_limit ELSE 0

\* C30: the knot set of every leaf, of span s, costs a line that starts at
\* column c the penalty times the characters of c + s over the column
\* limit; its knots start at column 0 and their columns increase strictly.
C30_KnotSetIsOverLimitCost ==
  Optimized =>
    /\ Len(knot_sets) = Len(LeavesOf(optimized_tree))
    /\ \A k \in DOMAIN knot_sets :
         LET s == Length(LeavesOf(optimized_tree)[k].tokens)
         IN  /\ s >= 1
             /\ knot_sets[k] # <<>>
             /\ knot_sets[k][1].column = 0
             /\ \A i \in 2..Len(knot_sets[k]) :
                  knot_sets[k][i - 1].column < knot_sets[k][i].column
             /\ \A i \in DOMAIN knot_sets[k] : knot_sets[k][i].span = s
             /\ \A c \in StartColumns :
                  CostAt(knot_sets[k], c)
                    = optimizer_style.over_column_limit_penalty * OverLimit(c, s)

\* A tree with a leaf shorter than the limit, which gets two knots, and a
\* leaf longer than the limit, which gets one knot with a cost at column 0;
\* the penalty is not 1.
C30_Witness ==
  /\ Optimized
  /\ optimizer_style.over_column_limit_penalty = 2
  /\ Len(knot_sets) = 2
  /\ Len(knot_sets[1]) = 2
  /\ knot_sets[1][2].column > 0
  /\ Len(knot_sets[2]) = 1
  /\ knot_sets[2][1].intercept > 0

====
